---------------------------- MODULE Spec2Model ----------------------------
(***************************************************************************)
(* Model of pdf_structure_extractor.py: the MultilingualPDFExtractor       *)
(* pipeline (block builder, script/language detector, structure analyzer,  *)
(* title selector, heading scorer, level assigner, outline assembler) and  *)
(* the batch driver process_all_pdfs / main.                               *)
(*                                                                         *)
(* A text is a sequence of Unicode code points.  The character operators   *)
(* below agree with Python's str methods, the re module and unicodedata on *)
(* the model's alphabet:                                                    *)
(*   U+0009 U+000A U+000D, U+0020..U+007E, U+00C0..U+00FF (not D7, F7),     *)
(*   U+0301, Greek U+0391..U+03A1 U+03A9 U+03B1..U+03C1 U+03C9,             *)
(*   Cyrillic U+0400..U+045F, Arabic U+061B U+0621..U+063A U+0641..U+064A   *)
(*   U+0660..U+0669 U+067E U+0686 U+0698 U+06AF, U+2460..U+2469,            *)
(*   U+3000..U+3002, U+FF1A, U+3041..U+3096, U+30A1..U+30FA, U+30FC,        *)
(*   U+4E00..U+9FA5, U+AC00..U+D7A3.                                        *)
(* U+0301 (combining acute) occurs in a text only where its composition    *)
(* stays in the alphabet: after one of the letters of NFCBase, or after a  *)
(* character that does not compose with it.                                *)
(***************************************************************************)
EXTENDS Integers, Sequences, FiniteSets, TLC

VARIABLES
    env,              \* what the process finds: [fitz_installed, input_dir_exists]
    pdf_files,        \* the documents behind input_dir.glob("*.pdf"), in order
    pc,               \* where the program stands
    file_idx,         \* the position in pdf_files of the file in the loop
    page_limit,       \* self.page_limit
    memory_threshold, \* self.memory_threshold
    lang_keywords,    \* self.lang_keywords
    number_patterns,  \* self.number_patterns
    open_docs,        \* the positions of the files whose document is open
    total_pages,      \* the locals of extract_structure, each as last assigned
    all_blocks,
    doc_lang,
    structure_info,
    title,
    valid_headings,   \* valid_headings of _build_outline: references into all_blocks
    outline,
    result,           \* what extract_structure returned for the file in the loop
    results,          \* the results returned so far, by file
    outputs,          \* the JSON files written so far, by file
    exit_code         \* the exit status of the process, -1 while it runs


In(c, a, b) == a <= c /\ c <= b

\* ------------------------------------------------------------ characters

\* str.isspace / regex \s
IsSpace(c) == c \in {9, 10, 13, 32, 12288}

\* str.isdecimal / regex \d (re.UNICODE): ASCII and Arabic-Indic digits
IsDecimal(c) == In(c, 48, 57) \/ In(c, 1632, 1641)

\* str.isdigit: the decimal digits and the circled digits U+2460..U+2468
IsDigit(c) == IsDecimal(c) \/ In(c, 9312, 9320)

\* str.isupper of one character
IsUpperCh(c) ==
    \/ In(c, 65, 90)
    \/ (In(c, 192, 222) /\ c # 215)
    \/ In(c, 913, 929) \/ c = 937
    \/ In(c, 1024, 1071)

\* str.islower of one character
IsLowerCh(c) ==
    \/ In(c, 97, 122)
    \/ (In(c, 223, 255) /\ c # 247)
    \/ In(c, 945, 961) \/ c = 969
    \/ In(c, 1072, 1119)

IsArabicLetter(c) ==
    In(c, 1569, 1594) \/ In(c, 1601, 1610) \/ c \in {1662, 1670, 1688, 1711}

IsCJKLetter(c) ==
    \/ In(c, 12353, 12438)      \* Hiragana
    \/ In(c, 12449, 12538)      \* Katakana
    \/ c = 12540                \* U+30FC prolonged sound mark
    \/ In(c, 19968, 40869)      \* CJK unified ideographs
    \/ In(c, 44032, 55203)      \* Hangul syllables

\* str.isalnum of one character (U+2469 is numeric, not a digit)
IsAlnum(c) ==
    IsUpperCh(c) \/ IsLowerCh(c) \/ IsArabicLetter(c) \/ IsCJKLetter(c)
        \/ IsDigit(c) \/ c = 9321

\* regex \w
IsWordCh(c) == IsAlnum(c) \/ c = 95

\* str.lower of one character
LowerCh(c) ==
    IF \/ In(c, 65, 90)
       \/ (In(c, 192, 222) /\ c # 215)
       \/ In(c, 913, 929) \/ c = 937
       \/ In(c, 1040, 1071)
    THEN c + 32
    ELSE IF In(c, 1024, 1039) THEN c + 80 ELSE c

\* c.isalnum() or ord(c) > 127
IsUsefulCh(c) == IsAlnum(c) \/ c > 127

\* ------------------------------------------------------------------ text

Max2(a, b) == IF a >= b THEN a ELSE b
Min2(a, b) == IF a <= b THEN a ELSE b
Abs(a) == IF a >= 0 THEN a ELSE -a

SetMin(S) == CHOOSE x \in S : \A y \in S : x <= y
SetMax(S) == CHOOSE x \in S : \A y \in S : x >= y

\* A sequence given as a function on 1..n, as a tuple
AsSeq(f) == f \o << >>

\* str.lower
Lower(t) == AsSeq([i \in 1..Len(t) |-> LowerCh(t[i])])

\* str.strip
Strip(t) ==
    IF \A i \in 1..Len(t) : IsSpace(t[i]) THEN << >>
    ELSE LET first == CHOOSE i \in 1..Len(t) :
                          ~IsSpace(t[i]) /\ \A j \in 1..(i - 1) : IsSpace(t[j])
             last  == CHOOSE i \in 1..Len(t) :
                          ~IsSpace(t[i]) /\ \A j \in (i + 1)..Len(t) : IsSpace(t[j])
         IN  SubSeq(t, first, last)

\* the subsequence of t at the indices (ascending) that satisfy Keep
KeptIndices(t, Keep(_)) == SelectSeq([i \in 1..Len(t) |-> i], Keep)

\* str.split(): the maximal runs of non-whitespace, in order
Split(t) ==
    LET starts == KeptIndices(t, LAMBDA i :
                      ~IsSpace(t[i]) /\ (i = 1 \/ IsSpace(t[i - 1])))
        ends   == KeptIndices(t, LAMBDA i :
                      ~IsSpace(t[i]) /\ (i = Len(t) \/ IsSpace(t[i + 1])))
    IN  AsSeq([k \in 1..Len(starts) |-> SubSeq(t, starts[k], ends[k])])

\* len(text.split())
WordCount(t) ==
    Cardinality({i \in 1..Len(t) :
                    ~IsSpace(t[i]) /\ (i = 1 \/ IsSpace(t[i - 1]))})

\* set(text.split())
WordSet(t) == LET ws == Split(t) IN {ws[k] : k \in 1..Len(ws)}

\* ' '.join(words)
RECURSIVE Join(_)
Join(ws) ==
    IF Len(ws) = 0 THEN << >>
    ELSE IF Len(ws) = 1 THEN ws[1]
    ELSE ws[1] \o <<32>> \o Join(Tail(ws))

\* kw in text
Contains(t, kw) ==
    \E i \in 1..(Len(t) - Len(kw) + 1) :
        \A j \in 1..Len(kw) : t[i + j - 1] = kw[j]

\* text.endswith(p)
EndsWith(t, p) ==
    /\ Len(p) <= Len(t)
    /\ \A j \in 1..Len(p) : t[Len(t) - Len(p) + j] = p[j]

\* any(c in text for c in chars)
ContainsAnyChar(t, chars) == \E i \in 1..Len(t) : t[i] \in chars

\* re.sub(r'\s+', ' ', text): every run of whitespace becomes one U+0020
CollapseWhitespace(t) ==
    LET idx == KeptIndices(t, LAMBDA i :
                   ~IsSpace(t[i]) \/ i = 1 \/ ~IsSpace(t[i - 1]))
    IN  AsSeq([k \in 1..Len(idx) |->
                   IF IsSpace(t[idx[k]]) THEN 32 ELSE t[idx[k]]])

\* The canonical compositions with U+0301 inside the alphabet:
\* A E I O U Y a e i o u y and Cyrillic U+0413 U+041A U+0433 U+043A.
NFCBase == {65, 69, 73, 79, 85, 89, 97, 101, 105, 111, 117, 121,
            1043, 1050, 1075, 1082}

NFCCompose(c) ==
    CASE c = 65 -> 193 [] c = 69 -> 201 [] c = 73 -> 205 [] c = 79 -> 211
      [] c = 85 -> 218 [] c = 89 -> 221 [] c = 97 -> 225 [] c = 101 -> 233
      [] c = 105 -> 237 [] c = 111 -> 243 [] c = 117 -> 250 [] c = 121 -> 253
      [] c = 1043 -> 1027 [] c = 1050 -> 1036
      [] c = 1075 -> 1107 [] c = 1082 -> 1116
      [] OTHER -> c

\* unicodedata.normalize('NFC', text)
NFC(t) ==
    LET idx == KeptIndices(t, LAMBDA i :
                   ~(t[i] = 769 /\ i > 1 /\ t[i - 1] \in NFCBase))
    IN  AsSeq([k \in 1..Len(idx) |->
                   IF idx[k] < Len(t) /\ t[idx[k] + 1] = 769
                   THEN NFCCompose(t[idx[k]]) ELSE t[idx[k]]])


\* ---------------------------------------------------------------- script

Scripts == {"latin", "cyrillic", "arabic", "cjk", "other"}

\* the characters _get_script_type skips besides spaces and digits: .,;:!?-()[]{}
SkipPunct == {46, 44, 59, 58, 33, 63, 45, 40, 41, 91, 93, 123, 125}

\* The script one character votes for: the first word of its Unicode name
\* holds LATIN or LETTER / CYRILLIC / ARABIC or PERSIAN / CJK, HIRAGANA,
\* KATAKANA or HANGUL; "skip" for a character that does not vote.
CharScript(c) ==
    IF IsSpace(c) \/ IsDigit(c) \/ c \in SkipPunct THEN "skip"
    ELSE IF In(c, 65, 90) \/ In(c, 97, 122) \/ (In(c, 192, 255) /\ c \notin {215, 247})
         THEN "latin"
    ELSE IF In(c, 1024, 1119) THEN "cyrillic"
    ELSE IF c = 1563 \/ IsArabicLetter(c) THEN "arabic"
    ELSE IF IsCJKLetter(c) THEN "cjk"
    ELSE "other"

\* The script with the most votes; among equals the one met first in the text
\* (max over a dict in insertion order returns the first maximum).
_get_script_type(text) ==
    IF Len(text) = 0 THEN "unknown"
    ELSE LET occ  == [s \in Scripts |->
                         {i \in 1..Len(text) : CharScript(text[i]) = s}]
             seen == {s \in Scripts : occ[s] # {}}
         IN  IF seen = {} THEN "latin"
             ELSE CHOOSE s \in seen : \A r \in seen \ {s} :
                      \/ Cardinality(occ[s]) > Cardinality(occ[r])
                      \/ /\ Cardinality(occ[s]) = Cardinality(occ[r])
                         /\ SetMin(occ[s]) < SetMin(occ[r])

\* ------------------------------------------------------------------ regex
\* A pattern is a sequence of items; an item matches lo..hi characters
\* (hi = -1: unbounded) that are in its set, or in its class ("d": \d,
\* "s": \s, "w": \w), the set compared without case when ci holds
\* (re.IGNORECASE).  re.match succeeds when some split of a prefix of the
\* text over the items exists, so the match is computed as the set of
\* positions reachable after each item.

Item(set, cls, ci, lo, hi) ==
    [set |-> set, cls |-> cls, ci |-> ci, lo |-> lo, hi |-> hi]

ItemHas(it, c) ==
    \/ c \in it.set
    \/ it.ci /\ it.set # {} /\ \E p \in it.set : LowerCh(p) = LowerCh(c)
    \/ it.cls = "d" /\ IsDecimal(c)
    \/ it.cls = "s" /\ IsSpace(c)
    \/ it.cls = "w" /\ IsWordCh(c)

\* the literal string lit, one item per character
Literal(lit, ci) == AsSeq([k \in 1..Len(lit) |-> Item({lit[k]}, "", ci, 1, 1)])

Advance(it, t, P) == {p + 1 : p \in {q \in P : q <= Len(t) /\ ItemHas(it, t[q])}}

RECURSIVE AdvanceTimes(_, _, _, _)
AdvanceTimes(it, t, P, n) ==
    IF n = 0 THEN P ELSE AdvanceTimes(it, t, Advance(it, t, P), n - 1)

\* the positions reached from P over at most n more matching characters
\* (n = -1: over any number)
AdvanceUpTo(it, t, P, n) ==
    LET stop == {r \in 1..Len(t) : ~ItemHas(it, t[r])} \cup {Len(t) + 1}
        last(p) == LET e == SetMin({r \in stop : r >= p})
                   IN  IF n = -1 THEN e ELSE Min2(e, p + n)
    IN  UNION {p..last(p) : p \in P}

RECURSIVE MatchFrom(_, _, _, _)
MatchFrom(pat, k, t, P) ==
    IF k > Len(pat) \/ P = {} THEN P
    ELSE LET it == pat[k]
             must == AdvanceTimes(it, t, P, it.lo)
             more == AdvanceUpTo(it, t, must,
                                 IF it.hi = -1 THEN -1 ELSE it.hi - it.lo)
         IN  MatchFrom(pat, k + 1, t, more)

\* re.match(pattern, text) is not None, for a pattern anchored with ^
ReMatch(pat, t) == MatchFrom(pat, 1, t, {1}) # {}


\* ----------------------------------------------------------------- tables
\* The value _setup_language_patterns gives self.lang_keywords:
\* script family -> language -> structural keywords
LangKeywords == [
  latin |-> [
    english |-> <<
        <<105, 110, 116, 114, 111, 100, 117, 99, 116, 105, 111, 110>>,   \* introduction
        <<111, 118, 101, 114, 118, 105, 101, 119>>,   \* overview
        <<115, 117, 109, 109, 97, 114, 121>>,   \* summary
        <<98, 97, 99, 107, 103, 114, 111, 117, 110, 100>>,   \* background
        <<99, 111, 110, 99, 108, 117, 115, 105, 111, 110>>,   \* conclusion
        <<109, 101, 116, 104, 111, 100, 111, 108, 111, 103, 121>>,   \* methodology
        <<114, 101, 115, 117, 108, 116, 115>>,   \* results
        <<100, 105, 115, 99, 117, 115, 115, 105, 111, 110>>,   \* discussion
        <<114, 101, 102, 101, 114, 101, 110, 99, 101, 115>>,   \* references
        <<97, 112, 112, 101, 110, 100, 105, 120>>,   \* appendix
        <<97, 99, 107, 110, 111, 119, 108, 101, 100, 103, 109, 101, 110, 116, 115>>,   \* acknowledgments
        <<97, 98, 115, 116, 114, 97, 99, 116>>,   \* abstract
        <<112, 114, 101, 102, 97, 99, 101>>,   \* preface
        <<99, 111, 110, 116, 101, 110, 116, 115>>,   \* contents
        <<105, 110, 100, 101, 120>>,   \* index
        <<111, 98, 106, 101, 99, 116, 105, 118, 101, 115>>,   \* objectives
        <<114, 101, 113, 117, 105, 114, 101, 109, 101, 110, 116, 115>>,   \* requirements
        <<115, 112, 101, 99, 105, 102, 105, 99, 97, 116, 105, 111, 110, 115>>,   \* specifications
        <<116, 105, 109, 101, 108, 105, 110, 101>>,   \* timeline
        <<97, 112, 112, 114, 111, 97, 99, 104>>,   \* approach
        <<101, 118, 97, 108, 117, 97, 116, 105, 111, 110>>,   \* evaluation
        <<99, 114, 105, 116, 101, 114, 105, 97>>,   \* criteria
        <<109, 105, 108, 101, 115, 116, 111, 110, 101, 115>>,   \* milestones
        <<115, 99, 111, 112, 101>>   \* scope
    >>,
    spanish |-> <<
        <<105, 110, 116, 114, 111, 100, 117, 99, 99, 105, 243, 110>>,   \* introducción
        <<114, 101, 115, 117, 109, 101, 110>>,   \* resumen
        <<97, 110, 116, 101, 99, 101, 100, 101, 110, 116, 101, 115>>,   \* antecedentes
        <<99, 111, 110, 99, 108, 117, 115, 105, 243, 110>>,   \* conclusión
        <<109, 101, 116, 111, 100, 111, 108, 111, 103, 237, 97>>,   \* metodología
        <<114, 101, 115, 117, 108, 116, 97, 100, 111, 115>>,   \* resultados
        <<100, 105, 115, 99, 117, 115, 105, 243, 110>>,   \* discusión
        <<114, 101, 102, 101, 114, 101, 110, 99, 105, 97, 115>>,   \* referencias
        <<97, 112, 233, 110, 100, 105, 99, 101>>,   \* apéndice
        <<97, 103, 114, 97, 100, 101, 99, 105, 109, 105, 101, 110, 116, 111, 115>>,   \* agradecimientos
        <<114, 101, 115, 117, 109, 101, 110>>,   \* resumen
        <<112, 114, 101, 102, 97, 99, 105, 111>>,   \* prefacio
        <<99, 111, 110, 116, 101, 110, 105, 100, 111, 115>>,   \* contenidos
        <<237, 110, 100, 105, 99, 101>>,   \* índice
        <<111, 98, 106, 101, 116, 105, 118, 111, 115>>,   \* objetivos
        <<114, 101, 113, 117, 105, 115, 105, 116, 111, 115>>,   \* requisitos
        <<101, 115, 112, 101, 99, 105, 102, 105, 99, 97, 99, 105, 111, 110, 101, 115>>,   \* especificaciones
        <<99, 114, 111, 110, 111, 103, 114, 97, 109, 97>>,   \* cronograma
        <<101, 110, 102, 111, 113, 117, 101>>,   \* enfoque
        <<101, 118, 97, 108, 117, 97, 99, 105, 243, 110>>,   \* evaluación
        <<99, 114, 105, 116, 101, 114, 105, 111, 115>>,   \* criterios
        <<104, 105, 116, 111, 115>>,   \* hitos
        <<97, 108, 99, 97, 110, 99, 101>>   \* alcance
    >>,
    french |-> <<
        <<105, 110, 116, 114, 111, 100, 117, 99, 116, 105, 111, 110>>,   \* introduction
        <<97, 112, 101, 114, 231, 117>>,   \* aperçu
        <<114, 233, 115, 117, 109, 233>>,   \* résumé
        <<99, 111, 110, 116, 101, 120, 116, 101>>,   \* contexte
        <<99, 111, 110, 99, 108, 117, 115, 105, 111, 110>>,   \* conclusion
        <<109, 233, 116, 104, 111, 100, 111, 108, 111, 103, 105, 101>>,   \* méthodologie
        <<114, 233, 115, 117, 108, 116, 97, 116, 115>>,   \* résultats
        <<100, 105, 115, 99, 117, 115, 115, 105, 111, 110>>,   \* discussion
        <<114, 233, 102, 233, 114, 101, 110, 99, 101, 115>>,   \* références
        <<97, 110, 110, 101, 120, 101>>,   \* annexe
        <<114, 101, 109, 101, 114, 99, 105, 101, 109, 101, 110, 116, 115>>,   \* remerciements
        <<114, 233, 115, 117, 109, 233>>,   \* résumé
        <<112, 114, 233, 102, 97, 99, 101>>,   \* préface
        <<99, 111, 110, 116, 101, 110, 117>>,   \* contenu
        <<105, 110, 100, 101, 120>>,   \* index
        <<111, 98, 106, 101, 99, 116, 105, 102, 115>>,   \* objectifs
        <<101, 120, 105, 103, 101, 110, 99, 101, 115>>,   \* exigences
        <<115, 112, 233, 99, 105, 102, 105, 99, 97, 116, 105, 111, 110, 115>>,   \* spécifications
        <<99, 97, 108, 101, 110, 100, 114, 105, 101, 114>>,   \* calendrier
        <<97, 112, 112, 114, 111, 99, 104, 101>>,   \* approche
        <<233, 118, 97, 108, 117, 97, 116, 105, 111, 110>>,   \* évaluation
        <<99, 114, 105, 116, 232, 114, 101, 115>>,   \* critères
        <<106, 97, 108, 111, 110, 115>>,   \* jalons
        <<112, 111, 114, 116, 233, 101>>   \* portée
    >>,
    german |-> <<
        <<101, 105, 110, 102, 252, 104, 114, 117, 110, 103>>,   \* einführung
        <<252, 98, 101, 114, 98, 108, 105, 99, 107>>,   \* überblick
        <<122, 117, 115, 97, 109, 109, 101, 110, 102, 97, 115, 115, 117, 110, 103>>,   \* zusammenfassung
        <<104, 105, 110, 116, 101, 114, 103, 114, 117, 110, 100>>,   \* hintergrund
        <<115, 99, 104, 108, 117, 115, 115>>,   \* schluss
        <<109, 101, 116, 104, 111, 100, 105, 107>>,   \* methodik
        <<101, 114, 103, 101, 98, 110, 105, 115, 115, 101>>,   \* ergebnisse
        <<100, 105, 115, 107, 117, 115, 115, 105, 111, 110>>,   \* diskussion
        <<114, 101, 102, 101, 114, 101, 110, 122, 101, 110>>,   \* referenzen
        <<97, 110, 104, 97, 110, 103>>,   \* anhang
        <<100, 97, 110, 107, 115, 97, 103, 117, 110, 103, 101, 110>>,   \* danksagungen
        <<122, 117, 115, 97, 109, 109, 101, 110, 102, 97, 115, 115, 117, 110, 103>>,   \* zusammenfassung
        <<118, 111, 114, 119, 111, 114, 116>>,   \* vorwort
        <<105, 110, 104, 97, 108, 116>>,   \* inhalt
        <<105, 110, 100, 101, 120>>,   \* index
        <<122, 105, 101, 108, 101>>,   \* ziele
        <<97, 110, 102, 111, 114, 100, 101, 114, 117, 110, 103, 101, 110>>,   \* anforderungen
        <<115, 112, 101, 122, 105, 102, 105, 107, 97, 116, 105, 111, 110, 101, 110>>,   \* spezifikationen
        <<122, 101, 105, 116, 112, 108, 97, 110>>,   \* zeitplan
        <<97, 110, 115, 97, 116, 122>>,   \* ansatz
        <<98, 101, 119, 101, 114, 116, 117, 110, 103>>,   \* bewertung
        <<107, 114, 105, 116, 101, 114, 105, 101, 110>>,   \* kriterien
        <<109, 101, 105, 108, 101, 110, 115, 116, 101, 105, 110, 101>>,   \* meilensteine
        <<117, 109, 102, 97, 110, 103>>   \* umfang
    >>
  ],
  cyrillic |-> [
    russian |-> <<
        <<1074, 1074, 1077, 1076, 1077, 1085, 1080, 1077>>,   \* введение
        <<1086, 1073, 1079, 1086, 1088>>,   \* обзор
        <<1088, 1077, 1079, 1102, 1084, 1077>>,   \* резюме
        <<1087, 1088, 1077, 1076, 1087, 1086, 1089, 1099, 1083, 1082, 1080>>,   \* предпосылки
        <<1079, 1072, 1082, 1083, 1102, 1095, 1077, 1085, 1080, 1077>>,   \* заключение
        <<1084, 1077, 1090, 1086, 1076, 1086, 1083, 1086, 1075, 1080, 1103>>,   \* методология
        <<1088, 1077, 1079, 1091, 1083, 1100, 1090, 1072, 1090, 1099>>,   \* результаты
        <<1086, 1073, 1089, 1091, 1078, 1076, 1077, 1085, 1080, 1077>>,   \* обсуждение
        <<1089, 1089, 1099, 1083, 1082, 1080>>,   \* ссылки
        <<1087, 1088, 1080, 1083, 1086, 1078, 1077, 1085, 1080, 1077>>,   \* приложение
        <<1073, 1083, 1072, 1075, 1086, 1076, 1072, 1088, 1085, 1086, 1089, 1090, 1080>>,   \* благодарности
        <<1072, 1085, 1085, 1086, 1090, 1072, 1094, 1080, 1103>>,   \* аннотация
        <<1087, 1088, 1077, 1076, 1080, 1089, 1083, 1086, 1074, 1080, 1077>>,   \* предисловие
        <<1089, 1086, 1076, 1077, 1088, 1078, 1072, 1085, 1080, 1077>>,   \* содержание
        <<1080, 1085, 1076, 1077, 1082, 1089>>,   \* индекс
        <<1094, 1077, 1083, 1080>>,   \* цели
        <<1090, 1088, 1077, 1073, 1086, 1074, 1072, 1085, 1080, 1103>>,   \* требования
        <<1089, 1087, 1077, 1094, 1080, 1092, 1080, 1082, 1072, 1094, 1080, 1080>>,   \* спецификации
        <<1075, 1088, 1072, 1092, 1080, 1082>>,   \* график
        <<1087, 1086, 1076, 1093, 1086, 1076>>,   \* подход
        <<1086, 1094, 1077, 1085, 1082, 1072>>,   \* оценка
        <<1082, 1088, 1080, 1090, 1077, 1088, 1080, 1080>>,   \* критерии
        <<1074, 1077, 1093, 1080>>,   \* вехи
        <<1086, 1073, 1083, 1072, 1089, 1090, 1100>>   \* область
    >>
  ],
  arabic |-> [
    arabic |-> <<
        <<1605, 1602, 1583, 1605, 1577>>,   \* مقدمة
        <<1606, 1592, 1585, 1577, 32, 1593, 1575, 1605, 1577>>,   \* نظرة عامة
        <<1605, 1604, 1582, 1589>>,   \* ملخص
        <<1582, 1604, 1601, 1610, 1577>>,   \* خلفية
        <<1582, 1575, 1578, 1605, 1577>>,   \* خاتمة
        <<1605, 1606, 1607, 1580, 1610, 1577>>,   \* منهجية
        <<1606, 1578, 1575, 1574, 1580>>,   \* نتائج
        <<1605, 1606, 1575, 1602, 1588, 1577>>,   \* مناقشة
        <<1605, 1585, 1575, 1580, 1593>>,   \* مراجع
        <<1605, 1604, 1581, 1602>>,   \* ملحق
        <<1588, 1603, 1585, 32, 1608, 1578, 1602, 1583, 1610, 1585>>,   \* شكر وتقدير
        <<1605, 1587, 1578, 1582, 1604, 1589>>,   \* مستخلص
        <<1578, 1605, 1607, 1610, 1583>>,   \* تمهيد
        <<1605, 1581, 1578, 1608, 1610, 1575, 1578>>,   \* محتويات
        <<1601, 1607, 1585, 1587>>,   \* فهرس
        <<1571, 1607, 1583, 1575, 1601>>,   \* أهداف
        <<1605, 1578, 1591, 1604, 1576, 1575, 1578>>,   \* متطلبات
        <<1605, 1608, 1575, 1589, 1601, 1575, 1578>>,   \* مواصفات
        <<1580, 1583, 1608, 1604, 32, 1586, 1605, 1606, 1610>>,   \* جدول زمني
        <<1606, 1607, 1580>>,   \* نهج
        <<1578, 1602, 1610, 1610, 1605>>,   \* تقييم
        <<1605, 1593, 1575, 1610, 1610, 1585>>,   \* معايير
        <<1605, 1593, 1575, 1604, 1605>>,   \* معالم
        <<1606, 1591, 1575, 1602>>   \* نطاق
    >>
  ],
  cjk |-> [
    chinese |-> <<
        <<24341, 35328>>,   \* 引言
        <<27010, 36848>>,   \* 概述
        <<25688, 35201>>,   \* 摘要
        <<32972, 26223>>,   \* 背景
        <<32467, 35770>>,   \* 结论
        <<26041, 27861, 35770>>,   \* 方法论
        <<32467, 26524>>,   \* 结果
        <<35752, 35770>>,   \* 讨论
        <<21442, 32771, 25991, 29486>>,   \* 参考文献
        <<38468, 24405>>,   \* 附录
        <<33268, 35874>>,   \* 致谢
        <<25688, 35201>>,   \* 摘要
        <<21069, 35328>>,   \* 前言
        <<30446, 24405>>,   \* 目录
        <<32034, 24341>>,   \* 索引
        <<30446, 26631>>,   \* 目标
        <<35201, 27714>>,   \* 要求
        <<35268, 26684>>,   \* 规格
        <<26102, 38388, 34920>>,   \* 时间表
        <<26041, 27861>>,   \* 方法
        <<35780, 20272>>,   \* 评估
        <<26631, 20934>>,   \* 标准
        <<37324, 31243, 30865>>,   \* 里程碑
        <<33539, 22260>>   \* 范围
    >>,
    japanese |-> <<
        <<12399, 12376, 12417, 12395>>,   \* はじめに
        <<27010, 35201>>,   \* 概要
        <<35201, 32004>>,   \* 要約
        <<32972, 26223>>,   \* 背景
        <<32080, 35542>>,   \* 結論
        <<26041, 27861, 35542>>,   \* 方法論
        <<32080, 26524>>,   \* 結果
        <<35696, 35542>>,   \* 議論
        <<21442, 32771, 25991, 29486>>,   \* 参考文献
        <<20184, 37682>>,   \* 付録
        <<35613, 36766>>,   \* 謝辞
        <<35201, 26088>>,   \* 要旨
        <<24207, 25991>>,   \* 序文
        <<30446, 27425>>,   \* 目次
        <<32034, 24341>>,   \* 索引
        <<30446, 27161>>,   \* 目標
        <<35201, 20214>>,   \* 要件
        <<20181, 27096>>,   \* 仕様
        <<12473, 12465, 12472, 12517, 12540, 12523>>,   \* スケジュール
        <<12450, 12503, 12525, 12540, 12481>>,   \* アプローチ
        <<35413, 20385>>,   \* 評価
        <<22522, 28310>>,   \* 基準
        <<12510, 12452, 12523, 12473, 12488, 12540, 12531>>,   \* マイルストーン
        <<31684, 22258>>   \* 範囲
    >>
  ]
]

\* the substrings that mark a keyword as a major-section word (_is_major_section)
MajorMarkers == <<
    <<105, 110, 116, 114, 111, 100, 117, 99, 116, 105, 111, 110>>,   \* introduction
    <<111, 118, 101, 114, 118, 105, 101, 119>>,   \* overview
    <<115, 117, 109, 109, 97, 114, 121>>,   \* summary
    <<98, 97, 99, 107, 103, 114, 111, 117, 110, 100>>,   \* background
    <<99, 111, 110, 99, 108, 117, 115, 105, 111, 110>>,   \* conclusion
    <<109, 101, 116, 104, 111, 100, 111, 108, 111, 103, 121>>,   \* methodology
    <<114, 101, 115, 117, 108, 116, 115>>,   \* results
    <<100, 105, 115, 99, 117, 115, 115, 105, 111, 110>>,   \* discussion
    <<114, 101, 102, 101, 114, 101, 110, 99, 101, 115>>,   \* references
    <<97, 112, 112, 101, 110, 100, 105, 120>>,   \* appendix
    <<97, 98, 115, 116, 114, 97, 99, 116>>,   \* abstract
    <<105, 110, 116, 114, 111, 100, 117, 99, 99, 105, 243, 110>>,   \* introducción
    <<114, 101, 115, 117, 109, 101, 110>>,   \* resumen
    <<99, 111, 110, 99, 108, 117, 115, 105, 243, 110>>,   \* conclusión
    <<1074, 1074, 1077, 1076, 1077, 1085, 1080, 1077>>,   \* введение
    <<1079, 1072, 1082, 1083, 1102, 1095, 1077, 1085, 1080, 1077>>,   \* заключение
    <<1605, 1602, 1583, 1605, 1577>>,   \* مقدمة
    <<1582, 1575, 1578, 1605, 1577>>,   \* خاتمة
    <<24341, 35328>>,   \* 引言
    <<32467, 35770>>   \* 结论
>>

\* the English fallback list of _is_major_section
MajorFallback == <<
    <<105, 110, 116, 114, 111, 100, 117, 99, 116, 105, 111, 110>>,   \* introduction
    <<111, 118, 101, 114, 118, 105, 101, 119>>,   \* overview
    <<98, 97, 99, 107, 103, 114, 111, 117, 110, 100>>,   \* background
    <<115, 117, 109, 109, 97, 114, 121>>,   \* summary
    <<99, 111, 110, 99, 108, 117, 115, 105, 111, 110>>,   \* conclusion
    <<109, 101, 116, 104, 111, 100, 111, 108, 111, 103, 121>>,   \* methodology
    <<114, 101, 115, 117, 108, 116, 115>>,   \* results
    <<100, 105, 115, 99, 117, 115, 115, 105, 111, 110>>,   \* discussion
    <<114, 101, 102, 101, 114, 101, 110, 99, 101, 115>>,   \* references
    <<97, 112, 112, 101, 110, 100, 105, 120>>,   \* appendix
    <<97, 99, 107, 110, 111, 119, 108, 101, 100, 103, 109, 101, 110, 116, 115>>,   \* acknowledgments
    <<97, 98, 115, 116, 114, 97, 99, 116>>   \* abstract
>>

\* the substrings that mark a keyword as a subsection word (_is_subsection)
SubMarkers == <<
    <<111, 98, 106, 101, 99, 116, 105, 118, 101, 115>>,   \* objectives
    <<103, 111, 97, 108, 115>>,   \* goals
    <<114, 101, 113, 117, 105, 114, 101, 109, 101, 110, 116, 115>>,   \* requirements
    <<115, 112, 101, 99, 105, 102, 105, 99, 97, 116, 105, 111, 110, 115>>,   \* specifications
    <<116, 105, 109, 101, 108, 105, 110, 101>>,   \* timeline
    <<97, 112, 112, 114, 111, 97, 99, 104>>,   \* approach
    <<101, 118, 97, 108, 117, 97, 116, 105, 111, 110>>,   \* evaluation
    <<99, 114, 105, 116, 101, 114, 105, 97>>,   \* criteria
    <<109, 105, 108, 101, 115, 116, 111, 110, 101, 115>>,   \* milestones
    <<111, 98, 106, 101, 116, 105, 118, 111, 115>>,   \* objetivos
    <<1094, 1077, 1083, 1080>>,   \* цели
    <<1090, 1088, 1077, 1073, 1086, 1074, 1072, 1085, 1080, 1103>>,   \* требования
    <<1571, 1607, 1583, 1575, 1601>>,   \* أهداف
    <<1605, 1578, 1591, 1604, 1576, 1575, 1578>>,   \* متطلبات
    <<30446, 26631>>,   \* 目标
    <<35201, 27714>>   \* 要求
>>

\* the English fallback list of _is_subsection
SubFallback == <<
    <<111, 98, 106, 101, 99, 116, 105, 118, 101, 115>>,   \* objectives
    <<103, 111, 97, 108, 115>>,   \* goals
    <<114, 101, 113, 117, 105, 114, 101, 109, 101, 110, 116, 115>>,   \* requirements
    <<115, 112, 101, 99, 105, 102, 105, 99, 97, 116, 105, 111, 110, 115>>,   \* specifications
    <<116, 105, 109, 101, 108, 105, 110, 101>>,   \* timeline
    <<97, 112, 112, 114, 111, 97, 99, 104>>,   \* approach
    <<101, 118, 97, 108, 117, 97, 116, 105, 111, 110>>,   \* evaluation
    <<99, 114, 105, 116, 101, 114, 105, 97>>,   \* criteria
    <<109, 105, 108, 101, 115, 116, 111, 110, 101, 115>>,   \* milestones
    <<100, 101, 108, 105, 118, 101, 114, 97, 98, 108, 101, 115>>,   \* deliverables
    <<115, 99, 111, 112, 101>>,   \* scope
    <<108, 105, 109, 105, 116, 97, 116, 105, 111, 110, 115>>   \* limitations
>>

\* admin_terms of _definitely_not_heading
AdminTerms == <<
    <<111, 102, 102, 105, 99, 101, 32, 117, 115, 101, 32, 111, 110, 108, 121>>,   \* office use only
    <<115, 105, 103, 110, 97, 116, 117, 114, 101>>,   \* signature
    <<100, 97, 116, 101>>,   \* date
    <<114, 101, 109, 97, 114, 107, 115>>,   \* remarks
    <<102, 97, 120, 101, 100, 32, 116, 111, 58>>,   \* faxed to:
    <<101, 45, 109, 97, 105, 108, 101, 100>>,   \* e-mailed
    <<109, 97, 105, 108, 101, 100>>,   \* mailed
    <<99, 111, 117, 114, 105, 101, 114, 101, 100>>   \* couriered
>>

\* the URL and e-mail markers of _obviously_not_title
UrlMarkers == <<
    <<119, 119, 119, 46>>,   \* www.
    <<104, 116, 116, 112>>,   \* http
    <<64>>,   \* @
    <<46, 99, 111, 109>>,   \* .com
    <<46, 111, 114, 103>>   \* .org
>>

\* the month names of the date pattern of _obviously_not_title
MonthNames == {
    <<106, 97, 110, 117, 97, 114, 121>>,   \* january
    <<102, 101, 98, 114, 117, 97, 114, 121>>,   \* february
    <<109, 97, 114, 99, 104>>,   \* march
    <<97, 112, 114, 105, 108>>,   \* april
    <<109, 97, 121>>,   \* may
    <<106, 117, 110, 101>>,   \* june
    <<106, 117, 108, 121>>,   \* july
    <<97, 117, 103, 117, 115, 116>>,   \* august
    <<115, 101, 112, 116, 101, 109, 98, 101, 114>>,   \* september
    <<111, 99, 116, 111, 98, 101, 114>>,   \* october
    <<110, 111, 118, 101, 109, 98, 101, 114>>,   \* november
    <<100, 101, 99, 101, 109, 98, 101, 114>>,   \* december
    <<101, 110, 101, 114, 111>>,   \* enero
    <<102, 101, 98, 114, 101, 114, 111>>,   \* febrero
    <<109, 97, 114, 122, 111>>,   \* marzo
    <<97, 98, 114, 105, 108>>,   \* abril
    <<109, 97, 121, 111>>,   \* mayo
    <<106, 117, 110, 105, 111>>,   \* junio
    <<106, 117, 108, 105, 111>>,   \* julio
    <<97, 103, 111, 115, 116, 111>>,   \* agosto
    <<115, 101, 112, 116, 105, 101, 109, 98, 114, 101>>,   \* septiembre
    <<111, 99, 116, 117, 98, 114, 101>>,   \* octubre
    <<110, 111, 118, 105, 101, 109, 98, 114, 101>>,   \* noviembre
    <<100, 105, 99, 105, 101, 109, 98, 114, 101>>   \* diciembre
}

\* (chapter|section|part|appendix)
LatinSectionWords == {
    <<99, 104, 97, 112, 116, 101, 114>>,   \* chapter
    <<115, 101, 99, 116, 105, 111, 110>>,   \* section
    <<112, 97, 114, 116>>,   \* part
    <<97, 112, 112, 101, 110, 100, 105, 120>>   \* appendix
}

\* (глава|раздел|часть|приложение)
CyrillicSectionWords == {
    <<1075, 1083, 1072, 1074, 1072>>,   \* глава
    <<1088, 1072, 1079, 1076, 1077, 1083>>,   \* раздел
    <<1095, 1072, 1089, 1090, 1100>>,   \* часть
    <<1087, 1088, 1080, 1083, 1086, 1078, 1077, 1085, 1080, 1077>>   \* приложение
}

\* (فصل|قسم|جزء|ملحق)
ArabicSectionWords == {
    <<1601, 1589, 1604>>,   \* فصل
    <<1602, 1587, 1605>>,   \* قسم
    <<1580, 1586, 1569>>,   \* جزء
    <<1605, 1604, 1581, 1602>>   \* ملحق
}

\* [一二三四五六七八九十]
IdeographicNumerals == {19968, 20108, 19977, 22235, 20116, 20845, 19971, 20843, 20061, 21313}
\* [章节部分]
ChapterMarks == {31456, 33410, 37096, 20998}
\* [①②③④⑤⑥⑦⑧⑨⑩]
CircledNumbers == {9312, 9313, 9314, 9315, 9316, 9317, 9318, 9319, 9320, 9321}
\* 'іїє' (_detect_cyrillic_lang)
UkrainianChars == {1110, 1111, 1108}
\* 'پچژگ' (_detect_arabic_lang)
PersianChars == {1662, 1670, 1688, 1711}
\* 'ひらがなカタカナ' (_detect_cjk_lang)
JapaneseChars == {12402, 12425, 12364, 12394, 12459, 12479, 12459, 12490}
\* '한글' (_detect_cjk_lang)
KoreanChars == {54620, 44544}

\* The value _setup_language_patterns gives self.number_patterns:
\* script -> regular expressions, each a set of
\* alternatives (items in sequence); all are matched with re.IGNORECASE
Digits1    == Item({}, "d", TRUE, 1, -1)                  \* \d+
OptDot     == Item({46}, "", TRUE, 0, 1)                  \* \.?
Dot        == Item({46}, "", TRUE, 1, 1)                  \* \.
Spaces1    == Item({}, "s", TRUE, 1, -1)                  \* \s+
Spaces0    == Item({}, "s", TRUE, 0, -1)                  \* \s*
Word1      == Item({}, "w", TRUE, 1, -1)                  \* \w+
OptCjkDot  == Item({12289, 46}, "", TRUE, 0, 1)           \* [、.]?

NumberPatterns == [
  latin |-> <<
    \* ^\d+\.?\s+\w+
    {<<Digits1, OptDot, Spaces1, Word1>>},
    \* ^\d+\.\d+\.?\s+\w+
    {<<Digits1, Dot, Digits1, OptDot, Spaces1, Word1>>},
    \* ^[IVX]+\.?\s+\w+
    {<<Item({73, 86, 88}, "", TRUE, 1, -1), OptDot, Spaces1, Word1>>},
    \* ^[a-zA-Z]\)?\s+\w+
    {<<Item((65..90) \cup (97..122), "", TRUE, 1, 1),
       Item({41}, "", TRUE, 0, 1), Spaces1, Word1>>},
    \* ^(chapter|section|part|appendix)\s+\d+
    {Literal(w, TRUE) \o <<Spaces1, Digits1>> : w \in LatinSectionWords}
  >>,
  cyrillic |-> <<
    \* ^\d+\.?\s+\w+
    {<<Digits1, OptDot, Spaces1, Word1>>},
    \* ^\d+\.\d+\.?\s+\w+
    {<<Digits1, Dot, Digits1, OptDot, Spaces1, Word1>>},
    \* ^(глава|раздел|часть|приложение)\s+\d+
    {Literal(w, TRUE) \o <<Spaces1, Digits1>> : w \in CyrillicSectionWords}
  >>,
  arabic |-> <<
    \* ^[٠-٩]+\.?\s+\w+
    {<<Item(1632..1641, "", TRUE, 1, -1), OptDot, Spaces1, Word1>>},
    \* ^\d+\.?\s+\w+
    {<<Digits1, OptDot, Spaces1, Word1>>},
    \* ^(فصل|قسم|جزء|ملحق)\s+[\d٠-٩]+
    {Literal(w, TRUE) \o <<Spaces1, Item(1632..1641, "d", TRUE, 1, -1)>> :
        w \in ArabicSectionWords}
  >>,
  cjk |-> <<
    \* ^[一二三四五六七八九十]+[、.]?\s*\w+
    {<<Item(IdeographicNumerals, "", TRUE, 1, -1), OptCjkDot, Spaces0, Word1>>},
    \* ^\d+[、.]?\s*\w+
    {<<Digits1, OptCjkDot, Spaces0, Word1>>},
    \* ^第[一二三四五六七八九十\d]+[章节部分]\s*\w+
    {<<Item({31532}, "", TRUE, 1, 1),
       Item(IdeographicNumerals, "d", TRUE, 1, -1),
       Item(ChapterMarks, "", TRUE, 1, 1), Spaces0, Word1>>},
    \* ^[①②③④⑤⑥⑦⑧⑨⑩]\s*\w+
    {<<Item(CircledNumbers, "", TRUE, 1, 1), Spaces0, Word1>>}
  >>
]

\* re.match of one regular expression (a set of alternatives)
ReMatchAny(regex, t) == \E alt \in regex : ReMatch(alt, t)

\* ------------------------------------------------------- text predicates

\* self.number_patterns.get(script, self.number_patterns['latin'])
PatternsFor(script) ==
    IF script \in DOMAIN number_patterns
    THEN number_patterns[script] ELSE number_patterns["latin"]

_has_numbering(text, script) ==
    \E k \in 1..Len(PatternsFor(script)) : ReMatchAny(PatternsFor(script)[k], text)

\* the script family whose table lists the language, if any
FamiliesOf(language) ==
    {f \in DOMAIN lang_keywords : language \in DOMAIN lang_keywords[f]}

LanguageKnown(language) == FamiliesOf(language) # {}

\* languages[language] of the family that lists it
KeywordsOf(language) ==
    lang_keywords[CHOOSE f \in FamiliesOf(language) : TRUE][language]

ContainsAny(t, words) == \E k \in 1..Len(words) : Contains(t, words[k])

_has_keywords(text_lower, language) ==
    IF LanguageKnown(language)
    THEN ContainsAny(text_lower, KeywordsOf(language))
    ELSE ContainsAny(text_lower, lang_keywords["latin"]["english"])

\* str.isupper: some cased character, and no lower-case one
IsUpper(t) ==
    /\ \E i \in 1..Len(t) : IsUpperCh(t[i])
    /\ \A i \in 1..Len(t) : ~IsLowerCh(t[i])

_is_caps_text(text, script) ==
    /\ script \notin {"arabic", "cjk"}
    /\ IsUpper(text)
    /\ 5 <= Len(text) /\ Len(text) <= 100
    /\ WordCount(text) <= 15

\* endings.get(script, [':']): ':' and, for arabic, U+061B; for cjk, U+FF1A
\* and U+3002
ColonEndings(script) ==
    CASE script = "arabic" -> {58, 1563}
      [] script = "cjk"    -> {58, 65306, 12290}
      [] OTHER             -> {58}

_ends_with_colon(text, script) ==
    /\ Len(text) > 0
    /\ text[Len(text)] \in ColonEndings(script)
    /\ WordCount(text) <= 12

_is_short_line(text, script) ==
    IF script = "cjk"
    THEN 5 <= Len(text) /\ Len(text) <= 50
    ELSE 3 <= WordCount(text) /\ WordCount(text) <= 15 /\ Len(text) <= 150

\* sum(1 for c in text if c.isalnum() or ord(c) > 127)
UsefulChars(t) == Cardinality({i \in 1..Len(t) : IsUsefulCh(t[i])})

_is_useful_text(text) ==
    /\ Len(text) > 0
    /\ Len(Strip(text)) >= 2
    /\ Len(text) <= 300
    /\ UsefulChars(text) >= 2

\* ^(january|...|diciembre)\s+\d{1,2},?\s+\d{4}
DatePattern ==
    {Literal(mo, FALSE) \o
        <<Item({}, "s", FALSE, 1, -1), Item({}, "d", FALSE, 1, 2),
          Item({44}, "", FALSE, 0, 1), Item({}, "s", FALSE, 1, -1),
          Item({}, "d", FALSE, 4, 4)>> : mo \in MonthNames}

_obviously_not_title(text, language) ==
    LET text_lower == Lower(text)
    IN  \/ ContainsAny(text_lower, UrlMarkers)
        \/ Len(Strip(text)) < 3
        \/ /\ language \in {"english", "spanish", "french", "german"}
           /\ ReMatchAny(DatePattern, text_lower)

\* useful_chars < len(text) * 0.4 is decided in tenths: the double product
\* len(text) * 0.4 compares with an integer as 4 * len / 10 does, for every
\* length up to the 300 characters a block can have
_definitely_not_heading(text, language) ==
    LET text_lower == Lower(text)
    IN  \/ ContainsAny(text_lower, AdminTerms)
        \/ IF _get_script_type(text) = "cjk"
           THEN Len(text) > 100
           ELSE WordCount(text) > 30
        \/ 10 * UsefulChars(text) < 4 * Len(text)

\* block['flags'] & 2**4
_is_bold(block) == (block.flags \div 16) % 2 = 1

\* ---------------------------------------------------------- block builder
\* A document is what the PDF collaborator hands over:
\*   [openable, fault, pages], fault the pipeline stage at which processing
\*   the document raises ("none" when it does not);
\*   a page is [unreadable, width, height, blocks]; a raw block is
\*   [kind, lines] with kind "text", "image" (no "lines" key) or "malformed"
\*   (a span without one of its keys: processing it raises);
\*   a line is a sequence of spans [text, size, flags, font, bbox].
\* Sizes and coordinates are whole points.

\* a stable sort of s by the strict order Less, as sorted() and list.sort()
StableSort(s, Less(_, _)) ==
    LET before(j, i) ==
            \/ Less(s[j], s[i])
            \/ ~Less(s[i], s[j]) /\ j < i
        rank == AsSeq([i \in 1..Len(s) |->
                    1 + Cardinality({j \in 1..Len(s) : before(j, i)})])
    IN  AsSeq([k \in 1..Len(s) |-> s[CHOOSE i \in 1..Len(s) : rank[i] = k]])

\* a | b on non-negative integers
RECURSIVE BitOr(_, _)
BitOr(a, b) ==
    IF a = 0 THEN b
    ELSE IF b = 0 THEN a
    ELSE Max2(a % 2, b % 2) + 2 * BitOr(a \div 2, b \div 2)

RECURSIVE FoldBitOr(_)
FoldBitOr(fs) == IF Len(fs) = 0 THEN 0 ELSE BitOr(fs[1], FoldBitOr(Tail(fs)))

SeqMax(s) == SetMax({s[k] : k \in 1..Len(s)})
SeqMin(s) == SetMin({s[k] : k \in 1..Len(s)})

\* sorted(spans, key=(bbox[1], bbox[0])), then consecutive spans with
\* y_gap < 5 and x_gap < 20 share a group
SpanBefore(a, b) ==
    a.bbox[2] < b.bbox[2] \/ (a.bbox[2] = b.bbox[2] /\ a.bbox[1] < b.bbox[1])

_group_nearby_spans(spans) ==
    IF Len(spans) = 0 THEN << >>
    ELSE LET sorted_spans == StableSort(spans, SpanBefore)
             n == Len(sorted_spans)
             near(i) ==
                 /\ Abs(sorted_spans[i].bbox[2] - sorted_spans[i - 1].bbox[2]) < 5
                 /\ Abs(sorted_spans[i].bbox[1] - sorted_spans[i - 1].bbox[3]) < 20
             starts == SelectSeq([i \in 1..n |-> i], LAMBDA i : i = 1 \/ ~near(i))
             stop(k) == IF k = Len(starts) THEN n ELSE starts[k + 1] - 1
         IN  AsSeq([k \in 1..Len(starts) |->
                       SubSeq(sorted_spans, starts[k], stop(k))])

NoBlock == [none |-> TRUE]

\* the block with the size and the flags taken from every span
_make_text_block_all_spans(spans, page_num, page_rect) ==
    IF Len(spans) = 0 THEN NoBlock
    ELSE LET kept == SelectSeq(spans, LAMBDA sp : Len(Strip(sp.text)) > 0)
             text_parts == AsSeq([k \in 1..Len(kept) |-> NFC(Strip(kept[k].text))])
             sizes == AsSeq([k \in 1..Len(spans) |-> spans[k].size])
             combined_flags == FoldBitOr(AsSeq([k \in 1..Len(spans) |-> spans[k].flags]))
             full_text == Join(text_parts)
             x1 == SetMin({spans[k].bbox[1] : k \in 1..Len(spans)})
             y1 == SetMin({spans[k].bbox[2] : k \in 1..Len(spans)})
             x2 == SetMax({spans[k].bbox[3] : k \in 1..Len(spans)})
             y2 == SetMax({spans[k].bbox[4] : k \in 1..Len(spans)})
         IN  IF Len(text_parts) = 0 THEN NoBlock
             ELSE [text |-> full_text,
                   page |-> page_num,
                   font_size |-> SeqMax(sizes),
                   font_name |-> spans[1].font,
                   flags |-> combined_flags,
                   bbox |-> <<x1, y1, x2, y2>>,
                   x0 |-> x1, y0 |-> y1, x1 |-> x2, y1 |-> y2,
                   page_width |-> page_rect.width,
                   page_height |-> page_rect.height,
                   char_count |-> Len(full_text),
                   word_count |-> WordCount(full_text),
                   line_height |-> y2 - y1,
                   script_type |-> _get_script_type(full_text)]

_make_text_block(spans, page_num, page_rect) ==
    IF Len(spans) = 0 THEN NoBlock
    ELSE LET kept == SelectSeq(spans, LAMBDA sp : Len(Strip(sp.text)) > 0)
             text_parts == AsSeq([k \in 1..Len(kept) |-> NFC(Strip(kept[k].text))])
             sizes == AsSeq([k \in 1..Len(kept) |-> kept[k].size])
             combined_flags == FoldBitOr(AsSeq([k \in 1..Len(kept) |-> kept[k].flags]))
             full_text == Join(text_parts)
             x1 == SetMin({spans[k].bbox[1] : k \in 1..Len(spans)})
             y1 == SetMin({spans[k].bbox[2] : k \in 1..Len(spans)})
             x2 == SetMax({spans[k].bbox[3] : k \in 1..Len(spans)})
             y2 == SetMax({spans[k].bbox[4] : k \in 1..Len(spans)})
         IN  IF Len(text_parts) = 0 THEN NoBlock
             ELSE [text |-> full_text,
                   page |-> page_num,
                   font_size |-> SeqMax(sizes),
                   font_name |-> spans[1].font,
                   flags |-> combined_flags,
                   bbox |-> <<x1, y1, x2, y2>>,
                   x0 |-> x1, y0 |-> y1, x1 |-> x2, y1 |-> y2,
                   page_width |-> page_rect.width,
                   page_height |-> page_rect.height,
                   char_count |-> Len(full_text),
                   word_count |-> WordCount(full_text),
                   line_height |-> y2 - y1,
                   script_type |-> _get_script_type(full_text)]

\* the blocks of one line: one per span group with useful text
LineBlocks(spans, page_num, page_rect) ==
    IF Len(spans) = 0 THEN << >>
    ELSE LET groups == _group_nearby_spans(spans)
             made == AsSeq([k \in 1..Len(groups) |->
                              _make_text_block(groups[k], page_num, page_rect)])
         IN  SelectSeq(made, LAMBDA b : b # NoBlock /\ _is_useful_text(b.text))

RECURSIVE _process_block_lines(_, _, _)
_process_block_lines(lines, page_num, page_rect) ==
    IF Len(lines) = 0 THEN << >>
    ELSE LineBlocks(lines[1], page_num, page_rect)
             \o _process_block_lines(Tail(lines), page_num, page_rect)

\* The loop of _get_text_blocks from raw block bi of page page_idx on, with
\* the blocks gathered so far: an unreadable page and a malformed raw block
\* raise, which ends the page (except: continue); past memory_threshold
\* blocks the first memory_threshold are returned at once.
RECURSIVE GatherBlocks(_, _, _, _, _)
GatherBlocks(doc, page_count, page_idx, bi, blocks) ==
    IF page_idx >= page_count THEN blocks
    ELSE LET page == doc.pages[page_idx + 1]
             rect == [width |-> page.width, height |-> page.height]
         IN  IF page.unreadable \/ bi > Len(page.blocks)
             THEN GatherBlocks(doc, page_count, page_idx + 1, 1, blocks)
             ELSE LET raw == page.blocks[bi]
                  IN  IF raw.kind = "image"
                      THEN GatherBlocks(doc, page_count, page_idx, bi + 1, blocks)
                      ELSE IF raw.kind = "malformed"
                      THEN GatherBlocks(doc, page_count, page_idx + 1, 1, blocks)
                      ELSE LET more == blocks \o
                                   _process_block_lines(raw.lines, page_idx, rect)
                           IN  IF Len(more) > memory_threshold
                               THEN SubSeq(more, 1, memory_threshold)
                               ELSE GatherBlocks(doc, page_count,
                                                 page_idx, bi + 1, more)

\* the blocks of the first page_count pages, page by page, without the
\* return at memory_threshold
RECURSIVE UncappedBlocks(_, _)
UncappedBlocks(doc, page_count) ==
    IF page_count = 0 THEN << >>
    ELSE UncappedBlocks(doc, page_count - 1)
             \o GatherBlocks(doc, page_count, page_count - 1, 1, << >>)

\* the blocks gathered without the cap
_get_text_blocks_uncapped(doc, page_count) == UncappedBlocks(doc, page_count)

\* the blocks gathered onto those of the call before
_get_text_blocks_kept(doc, page_count) ==
    GatherBlocks(doc, page_count, 0, 1, all_blocks)

_get_text_blocks(doc, page_count) ==
    GatherBlocks(doc, page_count, 0, 1, << >>)

\* ------------------------------------------------------ language detector

\* the sample of _guess_language: " " + text of each of the first 20
\* blocks, stopping once the sample has 1000 characters
RECURSIVE SampleFrom(_, _, _)
SampleFrom(blocks, k, sample) ==
    IF k > Len(blocks) \/ k > 20 \/ Len(sample) >= 1000 THEN sample
    ELSE SampleFrom(blocks, k + 1, sample \o <<32>> \o blocks[k].text)

LanguageSample(blocks) == SampleFrom(blocks, 1, << >>)

\* the order of the languages in self.lang_keywords['latin']
LatinLanguages == <<"english", "spanish", "french", "german">>

\* sum(1 for word in keywords if word in text)
KeywordHits(text, keywords) ==
    Cardinality({k \in 1..Len(keywords) : Contains(text, keywords[k])})

_detect_latin_lang(text) ==
    LET score(k) == KeywordHits(text, lang_keywords["latin"][LatinLanguages[k]])
        best == CHOOSE k \in 1..Len(LatinLanguages) :
                    /\ \A j \in 1..Len(LatinLanguages) : score(j) <= score(k)
                    /\ \A j \in 1..(k - 1) : score(j) < score(k)
    IN  IF score(best) > 0 THEN LatinLanguages[best] ELSE "english"

_detect_cyrillic_lang(text) ==
    IF ContainsAnyChar(text, UkrainianChars) THEN "ukrainian" ELSE "russian"

_detect_arabic_lang(text) ==
    IF ContainsAnyChar(text, PersianChars) THEN "persian" ELSE "arabic"

\* the detection with japanese for the text without a mark
_detect_cjk_lang_japanese(text) ==
    IF ContainsAnyChar(text, JapaneseChars) THEN "japanese"
    ELSE IF ContainsAnyChar(text, KoreanChars) THEN "korean"
    ELSE "japanese"

_detect_cjk_lang(text) ==
    IF ContainsAnyChar(text, JapaneseChars) THEN "japanese"
    ELSE IF ContainsAnyChar(text, KoreanChars) THEN "korean"
    ELSE "chinese"

_guess_language(blocks) ==
    LET sample == LanguageSample(blocks)
        script == _get_script_type(sample)
    IN  IF Len(sample) = 0 THEN "english"
        ELSE CASE script = "latin"    -> _detect_latin_lang(Lower(sample))
               [] script = "cyrillic" -> _detect_cyrillic_lang(sample)
               [] script = "arabic"   -> _detect_arabic_lang(sample)
               [] script = "cjk"      -> _detect_cjk_lang(sample)
               [] OTHER               -> "english"

\* ------------------------------------------------------ structure analysis
\* The lists of the analysis hold the dicts of the block list themselves: a
\* list is modelled as the sequence of the positions of its blocks in the
\* block list, and `block in list` compares the dicts by value.
InList(blocks, block, list) == \E k \in 1..Len(list) : blocks[list[k]] = block

\* the positions of the blocks that satisfy Test, in order
Where(blocks, Test(_)) ==
    SelectSeq([i \in 1..Len(blocks) |-> i], LAMBDA i : Test(blocks[i]))

\* s[lo] + ... + s[hi]
RECURSIVE SumBetween(_, _, _)
SumBetween(s, lo, hi) ==
    IF lo > hi THEN 0
    ELSE IF lo = hi THEN s[lo]
    ELSE SumBetween(s, lo, (lo + hi) \div 2)
             + SumBetween(s, (lo + hi) \div 2 + 1, hi)

Sum(s) == SumBetween(s, 1, Len(s))

\* sorted(set(sizes), reverse=True)
Descending(S) ==
    AsSeq([k \in 1..Cardinality(S) |->
              CHOOSE s \in S : Cardinality({u \in S : u > s}) = k - 1])

\* sorted(set(sizes))
Ascending(S) ==
    AsSeq([k \in 1..Cardinality(S) |->
              CHOOSE s \in S : Cardinality({u \in S : u < s}) = k - 1])

\* the numbers left in the order of the list
UnsortedNumbers(numbers) == numbers

\* sorted(numbers): each of the distinct numbers, in ascending order, as
\* many times as the list holds it
SortedNumbers(numbers) ==
    LET n == Len(numbers)
        distinct == Ascending({numbers[i] : i \in 1..n})
        upto == AsSeq([a \in 1..Len(distinct) |->
                    Cardinality({j \in 1..n : numbers[j] <= distinct[a]})])
    IN  AsSeq([k \in 1..n |->
            distinct[CHOOSE a \in 1..Len(distinct) :
                         upto[a] >= k /\ (a = 1 \/ upto[a - 1] < k)]])

\* font_info of _analyze_structure.  'average' is the quotient sum / n, kept
\* as its two terms; int(n * 0.75), int(n * 0.90) and int(n * 0.95) are
\* 3n/4, 9n/10 and 19n/20 rounded down for every n up to memory_threshold.
FontInfo(blocks) ==
    LET font_sizes == AsSeq([i \in 1..Len(blocks) |-> blocks[i].font_size])
        font_names == AsSeq([i \in 1..Len(blocks) |-> blocks[i].font_name])
        sorted_sizes == SortedNumbers(font_sizes)
        n == Len(sorted_sizes)
        sizes == {font_sizes[i] : i \in 1..n}
        names == {font_names[i] : i \in 1..n}
        uses == [f \in names |-> Cardinality({j \in 1..n : font_names[j] = f})]
        first == [f \in names |->
                     SelectSeq([j \in 1..n |-> j],
                               LAMBDA j : font_names[j] = f)[1]]
        common == first[CHOOSE f \in names :
                      \A g \in names :
                          \/ uses[g] < uses[f]
                          \/ uses[g] = uses[f] /\ first[f] <= first[g]]
    IN  [average |-> [sum |-> Sum(font_sizes), n |-> n],
         median |-> sorted_sizes[n \div 2 + 1],
         largest |-> SeqMax(font_sizes),
         smallest |-> SeqMin(font_sizes),
         p75 |-> IF n > 4 THEN sorted_sizes[(3 * n) \div 4 + 1] ELSE sorted_sizes[n],
         p90 |-> IF n > 10 THEN sorted_sizes[(9 * n) \div 10 + 1] ELSE sorted_sizes[n],
         p95 |-> IF n > 20 THEN sorted_sizes[(19 * n) \div 20 + 1] ELSE sorted_sizes[n],
         all_sizes |-> Descending(sizes),
         size_counts |-> [s \in sizes |->
                             Cardinality({j \in 1..n : font_sizes[j] = s})],
         common_font |-> font_names[common]]

_find_content_patterns(blocks, language) ==
    LET text(b) == Strip(b.text)
    IN  [numbered_items |-> Where(blocks, LAMBDA b : _has_numbering(text(b), b.script_type)),
         keywords |-> Where(blocks, LAMBDA b : _has_keywords(Lower(text(b)), language)),
         caps_text |-> Where(blocks, LAMBDA b : _is_caps_text(text(b), b.script_type)),
         colon_endings |-> Where(blocks, LAMBDA b : _ends_with_colon(text(b), b.script_type)),
         short_lines |-> Where(blocks, LAMBDA b : _is_short_line(text(b), b.script_type))]

\* The comparisons with page_width * 0.15, * 0.2 and * 0.8 are made in
\* whole numbers: abs(center_x - page_center) < page_width * 0.15 is
\* 10 * |x0 + x1 - page_width| < 3 * page_width, and the double products
\* are exact for the page widths of the model.
_analyze_layout(blocks) ==
    LET page_blocks(p) == SelectSeq(blocks, LAMBDA b : b.page = p)
        page_width(b) == page_blocks(b.page)[1].page_width
        centered(b) == 10 * Abs(b.x0 + b.x1 - page_width(b)) < 3 * page_width(b)
        left(b) == ~centered(b) /\ 5 * b.x0 < page_width(b)
        right(b) == ~centered(b) /\ ~left(b) /\ 5 * b.x1 > 4 * page_width(b)
        nearby(b) == LET others == page_blocks(b.page)
                     IN  Cardinality({k \in 1..Len(others) :
                             others[k] # b /\ Abs(others[k].y0 - b.y0) < 30})
    IN  [centered |-> Where(blocks, centered),
         left_side |-> Where(blocks, left),
         right_side |-> Where(blocks, right),
         isolated |-> Where(blocks, LAMBDA b : nearby(b) <= 1),
         top_of_page |-> Where(blocks, LAMBDA b : b.y0 < 150)]

_analyze_structure(blocks, language) ==
    IF Len(blocks) = 0 THEN << >>
    ELSE [fonts |-> FontInfo(blocks),
          content |-> _find_content_patterns(blocks, language),
          layout |-> _analyze_layout(blocks),
          language |-> language,
          block_count |-> Len(blocks)]

\* ------------------------------------------------------------ title finder
\* A title score is a sum of doubles, and sums of the same hundredths can
\* differ in the last bits (0.2 + 0.1 > 0.3).  The score is modelled as
\* [hundredths, drift]: the sum of the addends in hundredths, and the
\* distance, in units of 2^-58, of the double sum (the addends added in the
\* order of the code) from the double nearest the decimal sum.  Doubles of
\* different hundredths are ordered as their hundredths, doubles of the
\* same hundredths as their drifts.  The sums of the code that drift:
TitleScoreDrift ==
    {<<<<10, 5>>, 8>>, <<<<15, -30, 5>>, 4>>, <<<<20, 10>>, 16>>, 
     <<<<20, 10, 5>>, 16>>, <<<<20, -30>>, 8>>, <<<<20, -30, 5>>, 8>>, 
     <<<<20, 15, 5>>, -16>>, <<<<20, 15, 10>>, -16>>, 
     <<<<20, 15, 10, 5>>, -16>>, <<<<20, 15, -30>>, -4>>, 
     <<<<20, 15, -30, 5>>, -4>>, <<<<25, 10, 5>>, -16>>, <<<<25, -30>>, 4>>, 
     <<<<25, -30, 5>>, 4>>, <<<<25, 15, -30>>, 8>>, 
     <<<<25, 15, -30, 5>>, 8>>, <<<<25, 20, 10, 5>>, 32>>, 
     <<<<25, 20, -30>>, 8>>, <<<<30, 15>>, -16>>, <<<<30, 15, 5>>, -16>>, 
     <<<<30, 15, 10>>, -32>>, <<<<30, 15, -30>>, -8>>, 
     <<<<30, 15, -30, 5>>, -16>>, <<<<30, 20, 15, 5>>, 32>>, 
     <<<<30, 20, 15, -30>>, 16>>, <<<<30, 25, 5>>, 32>>, 
     <<<<30, 25, 10, 5>>, 32>>, <<<<30, 25, -30>>, 16>>, 
     <<<<30, 25, -30, 5>>, 16>>, <<<<30, 25, 15>>, 32>>, 
     <<<<30, 25, 15, 5>>, 32>>, <<<<30, 25, 15, 10, 5>>, 32>>, 
     <<<<30, 25, 15, -30>>, 16>>, <<<<30, 25, 15, -30, 5>>, 16>>, 
     <<<<30, 25, 20, 15, 5>>, 32>>, <<<<30, 25, 20, 15, -30>>, 32>>, 
     <<<<30, 25, 20, 15, -30, 5>>, 32>>, <<<<20, 10>>, 16>>, 
     <<<<20, 10, 5>>, 16>>, <<<<20, -30>>, 8>>, <<<<20, -30, 5>>, 8>>, 
     <<<<20, 15, 5>>, -16>>, <<<<20, 15, 10>>, -16>>, 
     <<<<20, 15, 10, 5>>, -16>>, <<<<20, 15, -30>>, -4>>, 
     <<<<20, 15, -30, 5>>, -4>>, <<<<20, 20, -30>>, 8>>, 
     <<<<20, 20, -30, 5>>, 8>>, <<<<20, 20, 15, 5>>, 32>>, 
     <<<<20, 20, 15, 10, 5>>, 32>>, <<<<20, 20, 15, -30>>, 16>>, 
     <<<<20, 20, 15, -30, 5>>, 16>>, <<<<20, 25, 10, 5>>, 32>>, 
     <<<<20, 25, -30>>, 8>>, <<<<20, 25, 20, 5>>, 32>>, 
     <<<<20, 25, 20, -30>>, 16>>, <<<<20, 25, 20, 15, 5>>, 32>>, 
     <<<<20, 25, 20, 15, 10, 5>>, 32>>}

Drift(addends) ==
    IF \E r \in TitleScoreDrift : r[1] = addends
    THEN (CHOOSE r \in TitleScoreDrift : r[1] = addends)[2]
    ELSE 0

\* a > b on scores
ScoreAbove(a, b) ==
    \/ a.hundredths > b.hundredths
    \/ a.hundredths = b.hundredths /\ a.drift > b.drift

Score(hundredths) == [hundredths |-> hundredths, drift |-> 0]

\* the score without the font, the weight, the place and the length
_score_title_candidate_flat(blocks, block, structure, language) ==
    IF _obviously_not_title(Strip(block.text), language) THEN Score(0)
    ELSE Score(100)

_score_title_candidate(blocks, block, structure, language) ==
    LET text == Strip(block.text)
        fonts == structure.fonts
        layout == structure.layout
        words == WordCount(text)
        font == IF block.font_size >= fonts.p95 THEN <<30>>
                ELSE IF block.font_size >= fonts.p90 THEN <<20>>
                ELSE << >>
        bold == IF _is_bold(block) THEN <<25>> ELSE << >>
        centered == IF InList(blocks, block, layout.centered) THEN <<20>> ELSE << >>
        top == IF InList(blocks, block, layout.top_of_page) THEN <<15>> ELSE << >>
        length == IF block.script_type = "cjk"
                  THEN IF 5 <= Len(text) /\ Len(text) <= 50 THEN <<10>> ELSE << >>
                  ELSE IF 3 <= words /\ words <= 25 THEN <<10>>
                  ELSE IF words > 30 THEN <<-30>>
                  ELSE << >>
        overall == IF 10 <= Len(text) /\ Len(text) <= 200 THEN <<5>> ELSE << >>
        addends == font \o bold \o centered \o top \o length \o overall
    IN  IF _obviously_not_title(text, language) THEN Score(0)
        ELSE [hundredths |-> Sum(addends), drift |-> Drift(addends)]

\* the title cleaned but never cut
_clean_title_uncut(t, language) == CollapseWhitespace(NFC(Strip(t)))

Ellipsis == <<46, 46, 46>>

_clean_title(t, language) ==
    LET cleaned == CollapseWhitespace(NFC(Strip(t)))
        script == _get_script_type(cleaned)
        words == Split(cleaned)
    IN  IF script = "cjk"
        THEN IF Len(cleaned) > 100
             THEN SubSeq(cleaned, 1, 100) \o Ellipsis
             ELSE cleaned
        ELSE IF Len(cleaned) > 200 /\ Len(words) > 30
             THEN Join(SubSeq(words, 1, 30)) \o Ellipsis
             ELSE cleaned

\* max(items, key): the first item no other item exceeds
FirstMax(items, Above(_, _)) ==
    items[CHOOSE i \in 1..Len(items) :
              /\ \A j \in 1..Len(items) : ~Above(items[j], items[i])
              /\ \A j \in 1..(i - 1) : Above(items[i], items[j])]

\* the title looked for on every page
_find_title_any_page(blocks, structure, language) ==
    LET scored == AsSeq([k \in 1..Len(blocks) |->
                     [block |-> blocks[k],
                      score |-> _score_title_candidate(blocks, blocks[k],
                                                       structure, language)]])
        candidates == SelectSeq(scored, LAMBDA c : ScoreAbove(c.score, Score(30)))
        valid == SelectSeq(blocks,
                     LAMBDA b : ~_obviously_not_title(b.text, language))
    IN  IF Len(blocks) = 0 THEN << >>
        ELSE IF Len(candidates) = 0
        THEN IF Len(valid) > 0
             THEN _clean_title(FirstMax(valid,
                      LAMBDA a, b : a.font_size > b.font_size).text, language)
             ELSE << >>
        ELSE _clean_title(FirstMax(candidates,
                 LAMBDA a, b : ScoreAbove(a.score, b.score)).block.text, language)

_find_title(blocks, structure, language) ==
    LET first_page == SelectSeq(blocks, LAMBDA b : b.page = 0)
        scored == AsSeq([k \in 1..Len(first_page) |->
                     [block |-> first_page[k],
                      score |-> _score_title_candidate(blocks, first_page[k],
                                                       structure, language)]])
        candidates == SelectSeq(scored, LAMBDA c : ScoreAbove(c.score, Score(30)))
        valid == SelectSeq(first_page,
                     LAMBDA b : ~_obviously_not_title(b.text, language))
    IN  IF Len(blocks) = 0 \/ Len(first_page) = 0 THEN << >>
        ELSE IF Len(candidates) = 0
        THEN IF Len(valid) > 0
             THEN _clean_title(FirstMax(valid,
                      LAMBDA a, b : a.font_size > b.font_size).text, language)
             ELSE << >>
        ELSE _clean_title(FirstMax(candidates,
                 LAMBDA a, b : ScoreAbove(a.score, b.score)).block.text, language)

\* --------------------------------------------------------- outline builder

\* The heading score in hundredths: for every sum of the addends of the
\* code, the double sum exceeds 0.4 exactly when the hundredths exceed 40.
_score_heading_candidate(blocks, block, structure, language) ==
    LET text == Strip(block.text)
        script == block.script_type
        fonts == structure.fonts
        content == structure.content
        layout == structure.layout
        words == WordCount(text)
        when(c, points) == IF c THEN points ELSE 0
    IN  IF _definitely_not_heading(text, language) THEN 0
        ELSE (IF block.font_size >= fonts.p90 THEN 20
              ELSE IF block.font_size >= fonts.p75 THEN 15 ELSE 0)
             + when(_is_bold(block), 25)
             + when(InList(blocks, block, content.numbered_items), 35)
             + when(InList(blocks, block, content.keywords), 30)
             + when(InList(blocks, block, content.caps_text), 20)
             + when(InList(blocks, block, content.colon_endings), 25)
             + when(InList(blocks, block, layout.centered), 15)
             + when(InList(blocks, block, layout.isolated), 20)
             + (IF script = "cjk"
                THEN IF 3 <= Len(text) /\ Len(text) <= 30 THEN 10
                     ELSE IF Len(text) > 50 THEN -40 ELSE 0
                ELSE IF 2 <= words /\ words <= 15 THEN 10
                     ELSE IF words > 25 THEN -40 ELSE 0)

\* the candidates kept whatever their overlap with the title
_remove_title_matches_skipped(blocks, candidates, t) == candidates

\* similarity < 0.4, with similarity = overlap / max(...), in whole numbers
_remove_title_matches(blocks, candidates, t) ==
    LET title_words == WordSet(NFC(Lower(t)))
        keep(c) ==
            LET block_words == WordSet(NFC(Lower(blocks[c.block].text)))
                overlap == Cardinality(title_words \cap block_words)
                largest == Max2(Cardinality(title_words), Cardinality(block_words))
            IN  IF title_words # {} /\ block_words # {}
                THEN 5 * overlap < 2 * largest
                ELSE TRUE
    IN  IF Len(t) = 0 THEN candidates ELSE SelectSeq(candidates, keep)

_is_valid_heading(block, language) ==
    LET text == Strip(block.text)
    IN  /\ IF block.script_type = "cjk"
           THEN 2 <= Len(text) /\ Len(text) <= 80
           ELSE 5 <= Len(text) /\ Len(text) <= 250 /\ WordCount(text) <= 25
        /\ ~_definitely_not_heading(text, language)

\* [A-Za-zЀ-ӿ؀-ۿ]
LeadLetter == Item((65..90) \cup (97..122) \cup (1024..1279) \cup (1536..1791),
                   "", FALSE, 1, 1)

\* ^[一二三四五六七八九十\d]+[、.]?\s*
CjkNumbering ==
    <<Item(IdeographicNumerals, "d", FALSE, 1, -1),
      Item({12289, 46}, "", FALSE, 0, 1), Item({}, "s", FALSE, 0, -1)>>

\* ^\d+\.?\s+[A-Za-zЀ-ӿ؀-ۿ]
WesternNumbering ==
    <<Item({}, "d", FALSE, 1, -1), Item({46}, "", FALSE, 0, 1),
      Item({}, "s", FALSE, 1, -1), LeadLetter>>

\* ^\d+\.\d+\.?\s+[A-Za-zЀ-ӿ؀-ۿ]
SubNumbering ==
    <<Item({}, "d", FALSE, 1, -1), Item({46}, "", FALSE, 1, 1),
      Item({}, "d", FALSE, 1, -1), Item({46}, "", FALSE, 0, 1),
      Item({}, "s", FALSE, 1, -1), LeadLetter>>

\* [w for w in words if any(m in w for m in markers)] of the family that
\* lists the language, or the fallback when that is empty
MarkedWords(language, markers, fallback) ==
    LET picked == IF LanguageKnown(language)
                  THEN SelectSeq(KeywordsOf(language),
                                 LAMBDA w : \E k \in 1..Len(markers) :
                                                Contains(w, markers[k]))
                  ELSE << >>
    IN  IF Len(picked) = 0 THEN fallback ELSE picked

_is_major_section(text_lower, heading, language) ==
    \/ ContainsAny(text_lower, MarkedWords(language, MajorMarkers, MajorFallback))
    \/ IF heading.script_type = "cjk"
       THEN ReMatch(CjkNumbering, heading.text)
       ELSE ReMatch(WesternNumbering, heading.text)
    \/ heading.page <= 1 /\ _is_bold(heading) /\ heading.font_size >= 14

_is_subsection(text_lower, heading, language) ==
    \/ ContainsAny(text_lower, MarkedWords(language, SubMarkers, SubFallback))
    \/ _ends_with_colon(heading.text, heading.script_type)
    \/ ReMatch(SubNumbering, heading.text)

\* the level with the H2 test made before the H1 test
LevelOfSubFirst(heading, language) ==
    LET text_lower == Lower(Strip(heading.text))
    IN  IF _is_subsection(text_lower, heading, language) THEN "H2"
        ELSE IF _is_major_section(text_lower, heading, language) THEN "H1"
        ELSE "H3"

\* the level _assign_levels stores in one heading
LevelOf(heading, language) ==
    LET text_lower == Lower(Strip(heading.text))
    IN  IF _is_major_section(text_lower, heading, language) THEN "H1"
        ELSE IF _is_subsection(text_lower, heading, language) THEN "H2"
        ELSE "H3"

\* heading['level'] = level on every block of the list: the blocks of the
\* block list after the call
_assign_levels(blocks, headings, language) ==
    AsSeq([i \in 1..Len(blocks) |->
        IF \E k \in 1..Len(headings) : headings[k] = i
        THEN blocks[i] @@ [level |-> LevelOf(blocks[i], language)]
        ELSE blocks[i]])

\* the headings left in the order of the block list
SortHeadingsSkipped(blocks, headings) == headings

\* valid_headings.sort(key=lambda h: (h['page'], h['y0']))
SortHeadings(blocks, headings) ==
    StableSort(headings, LAMBDA i, j :
        \/ blocks[i].page < blocks[j].page
        \/ blocks[i].page = blocks[j].page /\ blocks[i].y0 < blocks[j].y0)

\* the entries with their pages counted from one
_format_headings_from_one(blocks, headings) ==
    AsSeq([k \in 1..Len(headings) |->
        LET heading == blocks[headings[k]]
        IN  [level |-> IF "level" \in DOMAIN heading THEN heading.level ELSE "H3",
             text |-> NFC(Strip(heading.text)),
             page |-> heading.page + 1]])

_format_headings(blocks, headings) ==
    AsSeq([k \in 1..Len(headings) |->
        LET heading == blocks[headings[k]]
        IN  [level |-> IF "level" \in DOMAIN heading THEN heading.level ELSE "H3",
             text |-> NFC(Strip(heading.text)),
             page |-> heading.page]])

\* The candidates, valid headings and outline of _build_outline, with the
\* block list as _assign_levels leaves it.
\* for block in blocks: the blocks whose heading score is above 0.4, each
\* with its position in the block list
HeadingCandidates(blocks, structure, language) ==
    SelectSeq(AsSeq([i \in 1..Len(blocks) |->
                  [block |-> i,
                   score |-> _score_heading_candidate(blocks, blocks[i],
                                                      structure, language)]]),
              LAMBDA c : c.score > 40)

\* if title: candidates = self._remove_title_matches(candidates, title)
\* the candidates as they are, the title's among them
WithoutTitleKept(blocks, candidates, t) == candidates

WithoutTitle(blocks, candidates, t) ==
    IF Len(t) > 0 THEN _remove_title_matches(blocks, candidates, t)
    ELSE candidates

\* valid_headings before the sort: the candidates that are valid headings
ValidHeadings(blocks, candidates, language) ==
    SelectSeq(AsSeq([k \in 1..Len(candidates) |-> candidates[k].block]),
              LAMBDA i : _is_valid_heading(blocks[i], language))

\* the sort and the formatting, on the blocks with their levels
Assembled(levelled, sorted_headings) ==
    [blocks |-> levelled,
     valid_headings |-> sorted_headings,
     outline |-> _format_headings(levelled, sorted_headings)]

Sorted(levelled, headings) ==
    Assembled(levelled, SortHeadings(levelled, headings))

\* the returns of [] for no candidate and no valid heading, else the
\* levels, the sort and the formatting
OutlineOf(blocks, headings, language) ==
    IF Len(headings) = 0
    THEN [blocks |-> blocks, valid_headings |-> << >>, outline |-> << >>]
    ELSE Sorted(_assign_levels(blocks, headings, language), headings)

\* the block list after the call, valid_headings, and the outline returned
_build_outline(blocks, structure, t, language) ==
    OutlineOf(blocks,
              ValidHeadings(blocks,
                            WithoutTitle(blocks,
                                         HeadingCandidates(blocks, structure, language),
                                         t),
                            language),
              language)

\* -------------------------------------------------------------- documents
\* The documents the model runs the program on are built from specimen
\* lines: a specimen is the spans of one line, each [text, size, flags,
\* x0, x1], set on a page at a height y.

MaxBlocks == 3     \* the most lines a built document has
MaxFiles == 3      \* the most files a batch of several files has

Introduction ==
    <<
      \* 1. Introduction
      [text |-> <<49, 46, 32, 73, 110, 116, 114, 111, 100, 117, 99, 116,
                  105, 111, 110>>,
       size |-> 16, flags |-> 16, x0 |-> 72, x1 |-> 220]
    >>

RiskFactors ==
    <<
      \* 2.3 Risk Factors
      [text |-> <<50, 46, 51, 32, 82, 105, 115, 107, 32, 70, 97, 99, 116,
                  111, 114, 115>>,
       size |-> 13, flags |-> 0, x0 |-> 72, x1 |-> 220]
    >>

Evaluation ==
    <<
      \* 2.3 E+U+0301valuation
      [text |-> <<50, 46, 51, 32, 69, 769, 118, 97, 108, 117, 97, 116, 105,
                  111, 110>>,
       size |-> 13, flags |-> 0, x0 |-> 72, x1 |-> 220]
    >>

Contact ==
    <<
      \* Contact: info@example.com
      [text |-> <<67, 111, 110, 116, 97, 99, 116, 58, 32, 105, 110, 102,
                  111, 64, 101, 120, 97, 109, 112, 108, 101, 46, 99, 111,
                  109>>,
       size |-> 16, flags |-> 16, x0 |-> 72, x1 |-> 300]
    >>

ChapterOne ==
    <<
      \* 第一章 引言
      [text |-> <<31532, 19968, 31456, 32, 24341, 35328>>,
       size |-> 16, flags |-> 16, x0 |-> 72, x1 |-> 200]
    >>

ProjectOverview ==
    <<
      \* Project Overview
      [text |-> <<80, 114, 111, 106, 101, 99, 116, 32, 79, 118, 101, 114,
                  118, 105, 101, 119>>,
       size |-> 20, flags |-> 16, x0 |-> 200, x1 |-> 400]
    >>

BodyText ==
    <<
      \* This report describes the plan for the coming year.
      [text |-> <<84, 104, 105, 115, 32, 114, 101, 112, 111, 114, 116, 32,
                  100, 101, 115, 99, 114, 105, 98, 101, 115, 32, 116, 104,
                  101, 32, 112, 108, 97, 110, 32, 102, 111, 114, 32, 116,
                  104, 101, 32, 99, 111, 109, 105, 110, 103, 32, 121, 101,
                  97, 114, 46>>,
       size |-> 10, flags |-> 0, x0 |-> 72, x1 |-> 520]
    >>

Objectives ==
    <<
      \* 1.
      [text |-> <<49, 46>>,
       size |-> 13, flags |-> 16, x0 |-> 72, x1 |-> 84],
      \*   
      [text |-> <<32, 32>>,
       size |-> 13, flags |-> 0, x0 |-> 84, x1 |-> 90],
      \* Objectives
      [text |-> <<79, 98, 106, 101, 99, 116, 105, 118, 101, 115>>,
       size |-> 13, flags |-> 0, x0 |-> 90, x1 |-> 170]
    >>

ScopeColon ==
    <<
      \* Scope and limits:
      [text |-> <<83, 99, 111, 112, 101, 32, 97, 110, 100, 32, 108, 105,
                  109, 105, 116, 115, 58>>,
       size |-> 13, flags |-> 16, x0 |-> 72, x1 |-> 200]
    >>

NotesFollow ==
    <<
      \* Notes Follow
      [text |-> <<78, 111, 116, 101, 115, 32, 70, 111, 108, 108, 111, 119>>,
       size |-> 12, flags |-> 16, x0 |-> 72, x1 |-> 160]
    >>

CjkRisk ==
    <<
      \* 2.3 风险因素
      [text |-> <<50, 46, 51, 32, 39118, 38505, 22240, 32032>>,
       size |-> 13, flags |-> 0, x0 |-> 72, x1 |-> 200]
    >>

Catalogue ==
    <<
      \* 製品カタログ
      [text |-> <<35069, 21697, 12459, 12479, 12525, 12464>>,
       size |-> 10, flags |-> 0, x0 |-> 72, x1 |-> 160]
    >>

CyrillicGoals ==
    <<
      \* 1.2 Цели проекта
      [text |-> <<49, 46, 50, 32, 1062, 1077, 1083, 1080, 32, 1087, 1088,
                  1086, 1077, 1082, 1090, 1072>>,
       size |-> 13, flags |-> 16, x0 |-> 72, x1 |-> 220]
    >>

ArabicGoals ==
    <<
      \* 1.2 أهداف المشروع
      [text |-> <<49, 46, 50, 32, 1571, 1607, 1583, 1575, 1601, 32, 1575,
                  1604, 1605, 1588, 1585, 1608, 1593>>,
       size |-> 13, flags |-> 16, x0 |-> 380, x1 |-> 528]
    >>

OverviewAgain ==
    <<
      \* Overview of the Project
      [text |-> <<79, 118, 101, 114, 118, 105, 101, 119, 32, 111, 102, 32,
                  116, 104, 101, 32, 80, 114, 111, 106, 101, 99, 116>>,
       size |-> 12, flags |-> 16, x0 |-> 72, x1 |-> 240]
    >>

AnnualReport ==
    <<
      \* ANNUAL REPORT 2024
      [text |-> <<65, 78, 78, 85, 65, 76, 32, 82, 69, 80, 79, 82, 84, 32,
                  50, 48, 50, 52>>,
       size |-> 14, flags |-> 0, x0 |-> 210, x1 |-> 390]
    >>

ChapterOnePlain ==
    <<
      \* 第一章 引言
      [text |-> <<31532, 19968, 31456, 32, 24341, 35328>>,
       size |-> 12, flags |-> 0, x0 |-> 72, x1 |-> 200]
    >>

KoreanDocument ==
    <<
      \* 한글 문서
      [text |-> <<54620, 44544, 32, 47928, 49436>>,
       size |-> 10, flags |-> 0, x0 |-> 72, x1 |-> 160]
    >>

Specimens ==
    <<Introduction, RiskFactors, Evaluation, Objectives,
      ChapterOne, ProjectOverview, BodyText, Contact,
      ScopeColon, NotesFollow, CjkRisk, Catalogue,
      CyrillicGoals, ArabicGoals, OverviewAgain, AnnualReport,
      ChapterOnePlain, KoreanDocument>>

RECURSIVE Repeated(_, _)
Repeated(t, n) == IF n = 0 THEN << >> ELSE t \o Repeated(t, n - 1)

Times(w, n) == AsSeq([k \in 1..n |-> w])

Planning == <<112, 108, 97, 110, 110, 105, 110, 103>>     \* planning

Headline(text) ==
    <<[text |-> text, size |-> 20, flags |-> 16, x0 |-> 72, x1 |-> 528]>>

\* 120 ideographs
LongCjkTitle == Headline(Repeated(<<35745, 21010>>, 60))
\* 41 words, 204 characters
LongLatinTitle == Headline(Join(Times(<<112, 108, 97, 110>>, 41)))
\* 23 words, 206 characters
LongWordsTitle == Headline(Join(Times(Planning, 23)))
\* 30 words, 300 characters
FullLengthTitle ==
    Headline(Join(Times(Planning \o <<33>>, 29) \o <<Planning \o <<33, 33>>>>))
\* 31 words, 300 characters, the first 30 words 298 of them
FullWordsTitle ==
    Headline(Join(Times(Planning \o <<33>>, 29) \o <<Planning, <<120>>>>))

\* 30 words of three ideographs and a word of 91 letters: 211 characters,
\* Latin by one vote, CJK once cut to its first 30 words
MixedTitle ==
    Headline(Join(Times(<<35745, 21010, 20070>>, 30) \o <<Repeated(<<112>>, 91)>>))

LongSpecimens ==
    <<LongCjkTitle, LongLatinTitle, LongWordsTitle, FullLengthTitle,
      FullWordsTitle, MixedTitle>>

\* the spans of a specimen, set at height y
SpansAt(specimen, y) ==
    AsSeq([k \in 1..Len(specimen) |->
        [text |-> specimen[k].text,
         size |-> specimen[k].size,
         flags |-> specimen[k].flags,
         font |-> "Helvetica",
         bbox |-> <<specimen[k].x0, y, specimen[k].x1, y + specimen[k].size>>]])

TextBlock(lines) == [kind |-> "text", lines |-> lines]
ImageBlock == [kind |-> "image", lines |-> << >>]
MalformedBlock == [kind |-> "malformed", lines |-> << >>]

Page(blocks) ==
    [unreadable |-> FALSE, width |-> 600, height |-> 800, blocks |-> blocks]
UnreadablePage ==
    [unreadable |-> TRUE, width |-> 600, height |-> 800, blocks |-> << >>]

Document(pages) == [fault |-> "none", pages |-> pages]

\* the ways the lines of a document are laid out: one raw block per line
\* down the first page, or up it (the block order against the reading
\* order), or close together, or one page per line, or all the lines in
\* one raw block
Layouts == {"down", "up", "close", "pages", "lines"}

LaidOut(specimens, layout) ==
    LET n == Len(specimens)
        block(k, y) == TextBlock(<<SpansAt(specimens[k], y)>>)
    IN  CASE layout = "down" ->
               <<Page(AsSeq([k \in 1..n |-> block(k, 100 + 200 * (k - 1))]))>>
          [] layout = "up" ->
               <<Page(AsSeq([k \in 1..n |-> block(k, 100 + 200 * (n - k))]))>>
          [] layout = "close" ->
               <<Page(AsSeq([k \in 1..n |-> block(k, 200 + 20 * (k - 1))]))>>
          [] layout = "pages" ->
               AsSeq([k \in 1..n |-> Page(<<block(k, 100)>>)])
          [] layout = "lines" ->
               <<Page(<<TextBlock(AsSeq([k \in 1..n |->
                            SpansAt(specimens[k], 100 + 20 * (k - 1))]))>>)>>

\* the specimens that documents of n lines are built from
PoolFor(n) ==
    IF n <= 2 THEN Specimens ELSE SubSeq(Specimens, 1, 4)

BuiltDocuments ==
    UNION {{Document(LaidOut(AsSeq([k \in 1..n |-> PoolFor(n)[pick[k]]]), layout)) :
                pick \in [1..n -> 1..Len(PoolFor(n))], layout \in Layouts} :
           n \in 1..MaxBlocks}

\* the stages of extract_structure at which processing a document can raise
Stages == {"open", "blocks", "language", "analyze", "title", "outline", "close"}

Sample == LaidOut(<<ProjectOverview, Introduction, BodyText>>, "down")

Faulty(stage) == [fault |-> stage, pages |-> Sample]
Unopenable == Faulty("open")
NoPages == Document(<< >>)
ImageOnly == Document(<<Page(<<ImageBlock>>)>>)
PartlyUnreadable == Document(<<UnreadablePage>> \o Sample)
\* a page whose second raw block cannot be processed
PartlyMalformed ==
    Document(<<Page(<<TextBlock(<<SpansAt(Introduction, 100)>>),
                      MalformedBlock,
                      TextBlock(<<SpansAt(ScopeColon, 300)>>)>>)>>
             \o LaidOut(<<RiskFactors>>, "down"))
\* 51 pages, the last one past the page limit
ManyPages ==
    Document(LaidOut(<<Introduction>>, "down")
             \o Times(Page(<<ImageBlock>>), 49)
             \o LaidOut(<<ScopeColon>>, "down"))
LongTitled ==
    {Document(LaidOut(<<LongSpecimens[k]>>, "down")) : k \in 1..Len(LongSpecimens)}
        \cup {Document(LaidOut(<<LongSpecimens[k], Introduction>>, "down")) :
                 k \in 1..Len(LongSpecimens)}

\* ANNUAL REPORT 2024 at 24 pt, bold, centered
ReportTitle ==
    <<[text |-> AnnualReport[1].text, size |-> 24, flags |-> 16,
       x0 |-> 180, x1 |-> 420]>>

\* a line of body text at 10 pt between x0 and x1
BodyLine(x0, x1) ==
    <<[text |-> BodyText[1].text, size |-> 10, flags |-> 0,
       x0 |-> x0, x1 |-> x1]>>

\* the numbers of body lines of the reports
ReportSizes == {1, 2, 21}

\* A report: the title at the top of page 0 (y = 100) as raw block `at`
\* among n body lines, the first of them above the title and the others
\* below it, centered or on the left.
Report(n, at, placement) ==
    LET body == IF placement = "centered" THEN BodyLine(100, 500)
                ELSE BodyLine(72, 250)
        line(b) == TextBlock(<<SpansAt(body, IF b = 1 THEN 60 ELSE 110 + 30 * b)>>)
    IN  Document(<<Page(AsSeq([k \in 1..(n + 1) |->
            IF k = at THEN TextBlock(<<SpansAt(ReportTitle, 100)>>)
            ELSE line(IF k < at THEN k ELSE k - 1)]))>>)

Reports ==
    {Report(n, at, placement) :
        n \in ReportSizes, at \in {1, 2}, placement \in {"centered", "left"}}
          \cup {Report(n, n + 1, "centered") : n \in ReportSizes}

\* a page of n lines in one raw block, the first of them the given specimen
\* and the others body text
LongPage(first, n) ==
    Page(<<TextBlock(AsSeq([k \in 1..n |->
        SpansAt(IF k = 1 THEN first ELSE BodyLine(72, 520), 25 + 15 * k)]))>>)

\* a report of 21 pages of 50 lines: 1050 blocks, 1000 of them on the first
\* 20 pages
LongReport ==
    Document(<<LongPage(ReportTitle, 50), LongPage(Introduction, 50)>>
             \o Times(LongPage(BodyLine(72, 520), 50), 17)
             \o <<LongPage(RiskFactors, 50), LongPage(Objectives, 50)>>)

\* "Net", a wide bold space at 18 pt, "income" in italics
NetIncome ==
    <<[text |-> <<78, 101, 116>>,
       size |-> 10, flags |-> 0, x0 |-> 72, x1 |-> 90],
      [text |-> <<32>>,
       size |-> 18, flags |-> 16, x0 |-> 90, x1 |-> 96],
      [text |-> <<105, 110, 99, 111, 109, 101>>,
       size |-> 12, flags |-> 2, x0 |-> 96, x1 |-> 140]>>

\* a bold space at 20 pt before "Summary"
LedBySpace ==
    <<[text |-> <<32>>,
       size |-> 20, flags |-> 16, x0 |-> 60, x1 |-> 72],
      [text |-> <<83, 117, 109, 109, 97, 114, 121>>,
       size |-> 11, flags |-> 0, x0 |-> 72, x1 |-> 130]>>

\* nothing but spaces
Blank ==
    <<[text |-> <<32, 32>>,
       size |-> 30, flags |-> 16, x0 |-> 72, x1 |-> 90]>>

\* documents whose lines have spans of several sizes and styles
Styled ==
    {Document(LaidOut(<<line, Introduction>>, layout)) :
        line \in {NetIncome, LedBySpace, Blank, Objectives},
        layout \in {"down", "lines"}}

\* a heading in plain 13 pt type
PlainHeading(text) ==
    <<[text |-> text, size |-> 13, flags |-> 0, x0 |-> 72, x1 |-> 200]>>

\* per language, a headline and the language's own words for introduction
\* and conclusion (for French, with its word for summary)
SectionLines == <<
    \* English: ANNUAL REPORT 2024, Introduction, Conclusion
    <<Headline(<<65, 78, 78, 85, 65, 76, 32, 82, 69, 80, 79, 82, 84, 32, 50, 48, 50, 52>>),
      PlainHeading(<<73, 110, 116, 114, 111, 100, 117, 99, 116, 105, 111, 110>>),
      PlainHeading(<<67, 111, 110, 99, 108, 117, 115, 105, 111, 110>>)>>,
    \* Spanish: INFORME ANUAL 2024, Introducción, Conclusión
    <<Headline(<<73, 78, 70, 79, 82, 77, 69, 32, 65, 78, 85, 65, 76, 32, 50, 48, 50, 52>>),
      PlainHeading(<<73, 110, 116, 114, 111, 100, 117, 99, 99, 105, 243, 110>>),
      PlainHeading(<<67, 111, 110, 99, 108, 117, 115, 105, 243, 110>>)>>,
    \* French: RAPPORT ANNUEL 2024, Introduction, Conclusion, Résumé
    <<Headline(<<82, 65, 80, 80, 79, 82, 84, 32, 65, 78, 78, 85, 69, 76, 32, 50, 48, 50, 52>>),
      PlainHeading(<<73, 110, 116, 114, 111, 100, 117, 99, 116, 105, 111, 110>>),
      PlainHeading(<<67, 111, 110, 99, 108, 117, 115, 105, 111, 110>>),
      PlainHeading(<<82, 233, 115, 117, 109, 233>>)>>,
    \* German: JAHRESBERICHT 2024, Einführung, Schluss
    <<Headline(<<74, 65, 72, 82, 69, 83, 66, 69, 82, 73, 67, 72, 84, 32, 50, 48, 50, 52>>),
      PlainHeading(<<69, 105, 110, 102, 252, 104, 114, 117, 110, 103>>),
      PlainHeading(<<83, 99, 104, 108, 117, 115, 115>>)>>,
    \* Russian: ГОДОВОЙ ОТЧЕТ 2024, Введение, Заключение
    <<Headline(<<1043, 1054, 1044, 1054, 1042, 1054, 1049, 32, 1054, 1058, 1063, 1045, 1058, 32, 50, 48, 50, 52>>),
      PlainHeading(<<1042, 1074, 1077, 1076, 1077, 1085, 1080, 1077>>),
      PlainHeading(<<1047, 1072, 1082, 1083, 1102, 1095, 1077, 1085, 1080, 1077>>)>>,
    \* Arabic: التقرير السنوي 2024, مقدمة, خاتمة
    <<Headline(<<1575, 1604, 1578, 1602, 1585, 1610, 1585, 32, 1575, 1604, 1587, 1606, 1608, 1610, 32, 50, 48, 50, 52>>),
      PlainHeading(<<1605, 1602, 1583, 1605, 1577>>),
      PlainHeading(<<1582, 1575, 1578, 1605, 1577>>)>>,
    \* Chinese: 年度报告, 引言, 结论
    <<Headline(<<24180, 24230, 25253, 21578>>),
      PlainHeading(<<24341, 35328>>),
      PlainHeading(<<32467, 35770>>)>>,
    \* Japanese: 製品カタログ, はじめに, 結論
    <<Headline(<<35069, 21697, 12459, 12479, 12525, 12464>>),
      PlainHeading(<<12399, 12376, 12417, 12395>>),
      PlainHeading(<<32080, 35542>>)>>
>>

\* a document per language: the headline and the section headings down the
\* first page, or each on a page of its own
Sectioned ==
    {Document(LaidOut(SectionLines[k], layout)) :
        k \in 1..Len(SectionLines), layout \in {"down", "pages"}}

\* lines in the scripts with several languages: Hiragana, Katakana and
\* Hangul without the characters of the words for their names, Ukrainian in
\* capitals and in small letters, Persian
VariantLines == <<
    \* はじめに
    PlainHeading(<<12399, 12376, 12417, 12395>>),
    \* メモ
    PlainHeading(<<12513, 12514>>),
    \* 문서 요약
    PlainHeading(<<47928, 49436, 32, 50836, 50557>>),
    \* ЄВРОПА
    PlainHeading(<<1028, 1042, 1056, 1054, 1055, 1040>>),
    \* Вступ і мета
    PlainHeading(<<1042, 1089, 1090, 1091, 1087, 32, 1110, 32, 1084, 1077, 1090, 1072>>),
    \* گزارش سالانه
    PlainHeading(<<1711, 1586, 1575, 1585, 1588, 32, 1587, 1575, 1604, 1575, 1606, 1607>>)
>>

\* a document of one line per variant
Variants ==
    {Document(LaidOut(<<VariantLines[k]>>, "down")) : k \in 1..Len(VariantLines)}

\* the numbers of lines of the graded documents: the last count at which a
\* percentile of _analyze_structure is the largest size, and the first at
\* which it is read at its index
GradedCounts == {4, 5, 10, 11, 20, 21}

\* the size of line k of n: sizes rising or falling by one point a line,
\* or mixed, with lines of the same size
GradedSize(n, k, order) ==
    CASE order = "rising" -> 8 + k
      [] order = "falling" -> 9 + n - k
      [] order = "mixed" -> 10 + 2 * ((7 * k) % 5)

\* a page of n lines of body text in one raw block, each line in its size
Graded(n, order) ==
    Document(<<Page(<<TextBlock(AsSeq([k \in 1..n |->
        SpansAt(<<[text |-> BodyText[1].text, size |-> GradedSize(n, k, order),
                   flags |-> 0, x0 |-> 72, x1 |-> 520]>>,
                25 + 30 * k)]))>>)>>)

GradedDocuments ==
    {Graded(n, order) : n \in GradedCounts, order \in {"rising", "falling", "mixed"}}

Documents ==
    BuiltDocuments \cup LongTitled \cup Reports \cup {LongReport} \cup Styled \cup Sectioned \cup Variants
        \cup GradedDocuments
        \cup {Faulty(stage) : stage \in Stages}
        \cup {NoPages, ImageOnly, PartlyUnreadable, PartlyMalformed, ManyPages}

\* the documents that batches of several files are made of
BatchDocuments ==
    {Unopenable, Faulty("title"), ImageOnly, Document(Sample),
     Document(LaidOut(<<ChapterOne, CjkRisk>>, "up"))}

Batches ==
    {<<d>> : d \in Documents}
        \cup UNION {[1..n -> BatchDocuments] : n \in 2..MaxFiles}

\* what the process finds: whether PyMuPDF is installed, whether /app/input
\* exists, and whether /app/output can be made and written to
Usual == [fitz_installed |-> TRUE, input_dir_exists |-> TRUE, output_dir |-> "ok"]

Environments ==
    {Usual,
     [Usual EXCEPT !.fitz_installed = FALSE],
     [Usual EXCEPT !.input_dir_exists = FALSE],
     [Usual EXCEPT !.output_dir = "unmakeable"],
     [Usual EXCEPT !.output_dir = "unwritable"]}

\* the files of /app/input
BatchesIn(e) ==
    IF ~e.input_dir_exists THEN {<< >>}
    ELSE IF e = Usual THEN Batches \cup {<< >>}
    ELSE {<< >>, <<Document(Sample)>>, <<Unopenable, Document(Sample)>>}

\* ----------------------------------------------------------- the program

vars == <<env, pdf_files, pc, file_idx, page_limit, memory_threshold,
          lang_keywords, number_patterns, open_docs, total_pages, all_blocks,
          doc_lang, structure_info, title, valid_headings, outline, result,
          results, outputs, exit_code>>

extractor == <<page_limit, memory_threshold, lang_keywords, number_patterns>>
process == <<env, pdf_files, file_idx, results, outputs, exit_code>>

EmptyResult == [title |-> << >>, outline |-> << >>]

\* the document of the file in the loop
Doc == pdf_files[file_idx]

\* MultilingualPDFExtractor(): the fields __init__ sets
Construct ==
    /\ page_limit' = 50
    /\ memory_threshold' = 1000
    /\ lang_keywords' = LangKeywords
    /\ number_patterns' = NumberPatterns

Init ==
    /\ env \in Environments
    /\ pdf_files \in BatchesIn(env)
    /\ pc = "start"
    /\ file_idx = 0
    /\ page_limit = 50
    /\ memory_threshold = 1000
    /\ lang_keywords = LangKeywords
    /\ number_patterns = NumberPatterns
    /\ open_docs = {}
    /\ total_pages = 0
    /\ all_blocks = << >>
    /\ doc_lang = ""
    /\ structure_info = << >>
    /\ title = << >>
    /\ valid_headings = << >>
    /\ outline = << >>
    /\ result = EmptyResult
    /\ results = << >>
    /\ outputs = << >>
    /\ exit_code = -1

\* import fitz, or print and sys.exit(1)
ImportFitz ==
    /\ pc = "start"
    /\ IF env.fitz_installed
       THEN pc' = "main" /\ exit_code' = exit_code
       ELSE pc' = "exited" /\ exit_code' = 1
    /\ UNCHANGED <<env, pdf_files, file_idx, extractor, open_docs, total_pages,
                   all_blocks, doc_lang, structure_info, title, valid_headings,
                   outline, result, results, outputs>>

\* process_all_pdfs up to its loop: output_dir.mkdir raises into main, which
\* exits with 1; without the input directory or without files it returns
process_all_pdfs ==
    /\ pc = "main"
    /\ IF env.output_dir = "unmakeable"
       THEN pc' = "exited" /\ exit_code' = 1 /\ file_idx' = file_idx
       ELSE IF ~env.input_dir_exists \/ Len(pdf_files) = 0
       THEN pc' = "return" /\ exit_code' = exit_code /\ file_idx' = file_idx
       ELSE pc' = "open" /\ exit_code' = exit_code /\ file_idx' = 1
    /\ Construct
    /\ UNCHANGED <<env, pdf_files, open_docs, total_pages, all_blocks, doc_lang,
                   structure_info, title, valid_headings, outline, result,
                   results, outputs>>

\* the title found so far returned from the except branch
RaisedWithTitle ==
    /\ result' = [title |-> title, outline |-> << >>]
    /\ pc' = "save"

\* except Exception in extract_structure: the empty result is returned
Raised ==
    /\ result' = EmptyResult
    /\ pc' = "save"

\* extract_structure: fitz.open and the page count
OpenDocument ==
    /\ pc = "open"
    /\ IF Doc.fault = "open"
       THEN Raised /\ UNCHANGED <<open_docs, total_pages>>
       ELSE /\ open_docs' = open_docs \cup {file_idx}
            /\ total_pages' = Min2(Len(Doc.pages), page_limit)
            /\ pc' = "blocks"
            /\ result' = result
    /\ UNCHANGED <<process, extractor, all_blocks, doc_lang, structure_info,
                   title, valid_headings, outline>>

\* extract_structure: the block list, and the early return without blocks
Gathered(blocks) ==
    /\ all_blocks' = blocks
    /\ IF Len(blocks) = 0
       THEN /\ open_docs' = open_docs \ {file_idx}
            /\ result' = EmptyResult
            /\ pc' = "save"
       ELSE /\ pc' = "language"
            /\ UNCHANGED <<open_docs, result>>

GetTextBlocks ==
    /\ pc = "blocks"
    /\ IF Doc.fault = "blocks"
       THEN Raised /\ UNCHANGED <<all_blocks, open_docs>>
       ELSE Gathered(_get_text_blocks(Doc, total_pages))
    /\ UNCHANGED <<process, extractor, total_pages, doc_lang, structure_info,
                   title, valid_headings, outline>>

GuessLanguage ==
    /\ pc = "language"
    /\ IF Doc.fault = "language"
       THEN Raised /\ UNCHANGED doc_lang
       ELSE /\ doc_lang' = _guess_language(all_blocks)
            /\ pc' = "analyze"
            /\ result' = result
    /\ UNCHANGED <<process, extractor, open_docs, total_pages, all_blocks,
                   structure_info, title, valid_headings, outline>>

AnalyzeStructure ==
    /\ pc = "analyze"
    /\ IF Doc.fault = "analyze"
       THEN Raised /\ UNCHANGED structure_info
       ELSE /\ structure_info' = _analyze_structure(all_blocks, doc_lang)
            /\ pc' = "title"
            /\ result' = result
    /\ UNCHANGED <<process, extractor, open_docs, total_pages, all_blocks,
                   doc_lang, title, valid_headings, outline>>

FindTitle ==
    /\ pc = "title"
    /\ IF Doc.fault = "title"
       THEN Raised /\ UNCHANGED title
       ELSE /\ title' = _find_title(all_blocks, structure_info, doc_lang)
            /\ pc' = "outline"
            /\ result' = result
    /\ UNCHANGED <<process, extractor, open_docs, total_pages, all_blocks,
                   doc_lang, structure_info, valid_headings, outline>>

\* the locals of extract_structure after _build_outline has returned
Built(built) ==
    /\ all_blocks' = built.blocks
    /\ valid_headings' = built.valid_headings
    /\ outline' = built.outline

BuildOutline ==
    /\ pc = "outline"
    /\ IF Doc.fault = "outline"
       THEN Raised /\ UNCHANGED <<all_blocks, valid_headings, outline>>
       ELSE /\ Built(_build_outline(all_blocks, structure_info, title, doc_lang))
            /\ pc' = "close"
            /\ result' = result
    /\ UNCHANGED <<process, extractor, open_docs, total_pages, doc_lang,
                   structure_info, title>>

\* extract_structure: doc.close() and the return of the title and outline
CloseAndReturn ==
    /\ pc = "close"
    /\ IF Doc.fault = "close"
       THEN Raised /\ UNCHANGED open_docs
       ELSE /\ open_docs' = open_docs \ {file_idx}
            /\ result' = [title |-> title, outline |-> outline]
            /\ pc' = "save"
    /\ UNCHANGED <<process, extractor, total_pages, all_blocks, doc_lang,
                   structure_info, title, valid_headings, outline>>

\* save_output writes the result, or logs that it could not; the loop of
\* process_all_pdfs then takes the next file or ends
save_output ==
    /\ pc = "save"
    /\ results' = Append(results, result)
    /\ outputs' = IF env.output_dir = "unwritable" THEN outputs
                  ELSE (file_idx :> result) @@ outputs
    /\ IF file_idx < Len(pdf_files)
       THEN file_idx' = file_idx + 1 /\ pc' = "open"
       ELSE file_idx' = file_idx /\ pc' = "return"
    /\ UNCHANGED <<env, pdf_files, exit_code, extractor, open_docs, total_pages,
                   all_blocks, doc_lang, structure_info, title, valid_headings,
                   outline, result>>

\* main after process_all_pdfs returned: the process ends with status 0
main ==
    /\ pc = "return"
    /\ pc' = "exited"
    /\ exit_code' = 0
    /\ UNCHANGED <<env, pdf_files, file_idx, results, outputs, extractor,
                   open_docs, total_pages, all_blocks, doc_lang, structure_info,
                   title, valid_headings, outline, result>>

Next ==
    \/ ImportFitz
    \/ process_all_pdfs
    \/ OpenDocument
    \/ GetTextBlocks
    \/ GuessLanguage
    \/ AnalyzeStructure
    \/ FindTitle
    \/ BuildOutline
    \/ CloseAndReturn
    \/ save_output
    \/ main

Spec == Init /\ [][Next]_vars

\* ------------------------------------------------------------- properties

\* extract_structure has returned the title and the outline of the document
\* of the file in the loop: its locals are those of this call
Succeeded == pc = "save" /\ Doc.fault = "none" /\ Len(all_blocks) > 0

\* the block behind entry k of the returned outline
HeadingBlock(k) == all_blocks[valid_headings[k]]

\* C1: the returned outline is in reading order: of any two entries the
\* earlier one is on an earlier page, or on the same page with the top (y0)
\* of its block not below that of the later one.
C1_OutlineInReadingOrder ==
    Succeeded =>
        /\ Len(valid_headings) = Len(result.outline)
        /\ \A i, j \in 1..Len(result.outline) :
               i < j =>
                   \/ result.outline[i].page < result.outline[j].page
                   \/ /\ result.outline[i].page = result.outline[j].page
                      /\ HeadingBlock(i).y0 <= HeadingBlock(j).y0

\* a returned outline whose entries are not in the order of the block list
C1_SortedAgainstBlockOrder ==
    /\ Succeeded
    /\ \E i, j \in 1..Len(result.outline) :
           /\ i < j
           /\ valid_headings[i] > valid_headings[j]
           /\ HeadingBlock(i).y0 < HeadingBlock(j).y0

\* the word overlap |A /\ B| / max(|A|, |B|) of two texts, lower-cased and
\* NFC-normalized, is at least 0.4
OverlapsTitle(text, t) ==
    LET A == WordSet(NFC(Lower(text)))
        B == WordSet(NFC(Lower(t)))
    IN  5 * Cardinality(A \cap B) >= 2 * Max2(Cardinality(A), Cardinality(B))

\* C2: when the returned title is not empty, no entry of the returned
\* outline has a word overlap of 0.4 or more with it.
C2_NoEntryRepeatsTitle ==
    pc = "save" /\ Len(result.title) > 0 =>
        \A k \in 1..Len(result.outline) :
            ~OverlapsTitle(result.outline[k].text, result.title)

\* a title and an outline are returned, and a block that scored as a heading
\* and is a valid one was left out for its overlap with the title
C2_CandidateDroppedForTitle ==
    /\ Succeeded
    /\ Len(result.title) > 0
    /\ Len(result.outline) > 0
    /\ \E i \in 1..Len(all_blocks) :
           /\ _score_heading_candidate(all_blocks, all_blocks[i],
                                       structure_info, doc_lang) > 40
           /\ _is_valid_heading(all_blocks[i], doc_lang)
           /\ OverlapsTitle(all_blocks[i].text, result.title)

\* the title text as _clean_title has it before any cut
Uncut(text) == CollapseWhitespace(NFC(Strip(text)))

\* C3 as stated: the returned title, ellipsis included, has at most 100
\* characters when its script is CJK and at most 200 otherwise.
C3_TitleWithinStatedLimits ==
    pc = "save" =>
        Len(result.title) <=
            IF _get_script_type(result.title) = "cjk" THEN 100 ELSE 200

\* C3 as amended: the returned title is the cleaned text of a block of the
\* first page, with at most 103 characters when the script detected for the
\* uncut text is CJK (100 characters and the ellipsis), and at most 301
\* otherwise.
C3_TitleWithinLimitsAndEllipsis ==
    pc = "save" /\ Len(result.title) > 0 =>
        \E i \in 1..Len(all_blocks) :
            /\ all_blocks[i].page = 0
            /\ result.title = _clean_title(all_blocks[i].text, doc_lang)
            /\ Len(result.title) <=
                   IF _get_script_type(Uncut(all_blocks[i].text)) = "cjk"
                   THEN 103 ELSE 301

\* a CJK title cut to 100 characters and the ellipsis is returned
C3_CjkTitleCut ==
    /\ Succeeded
    /\ Len(result.title) = 103
    /\ _get_script_type(result.title) = "cjk"
    /\ \E i \in 1..Len(all_blocks) : Len(all_blocks[i].text) > 103

\* C4: extract_structure returns the empty result for a document that cannot
\* be opened, that yields no text block, or whose processing raises at any
\* stage; and every file of a batch gets its result, also after a failure.
C4_FailuresReturnEmptyResult ==
    /\ pc = "save" =>
           /\ Len(results) = file_idx - 1
           /\ \/ Doc.fault # "none"
              \/ Len(_get_text_blocks(Doc, Min2(Len(Doc.pages), page_limit))) = 0
              => result = EmptyResult
    /\ pc = "return" => Len(results) = Len(pdf_files)

\* a batch is through, with a file whose processing raised before a file
\* that got a title
C4_FileProcessedAfterFailure ==
    /\ pc = "return"
    /\ \E i \in 1..(Len(pdf_files) - 1) :
           /\ pdf_files[i].fault \notin {"none", "open"}
           /\ results[i] = EmptyResult
           /\ Len(results[i + 1].title) > 0

\* C5: two calls on the same document return the same title and outline,
\* whatever was processed in between, and no step changes page_limit,
\* memory_threshold, lang_keywords or number_patterns.
C5_SameDocumentSameResult ==
    /\ [](\A i, j \in 1..Len(results) :
              pdf_files[i] = pdf_files[j] => results[i] = results[j])
    /\ [][UNCHANGED extractor]_vars

\* a document was processed first and again after another one, with an outline
C5_RepeatedAfterAnother ==
    /\ pc = "return"
    /\ \E i, k, j \in 1..Len(results) :
           /\ i < k /\ k < j
           /\ pdf_files[i] = pdf_files[j]
           /\ pdf_files[k] # pdf_files[i]
           /\ Len(results[k].outline) > 0
           /\ Len(results[j].outline) > 0

\* C6: every entry of a returned outline comes from one block of its own:
\* the entries map one to one into the block list, each with the page of its
\* block, the NFC-normalized stripped text of its block and a level among
\* H1, H2, H3; the outline has no more entries than there are blocks.
C6_EntriesComeFromBlocks ==
    pc = "save" =>
        IF Succeeded
        THEN /\ Len(result.outline) = Len(valid_headings)
             /\ Len(result.outline) <= Len(all_blocks)
             /\ \A k \in 1..Len(result.outline) :
                    /\ valid_headings[k] \in 1..Len(all_blocks)
                    /\ result.outline[k].page = HeadingBlock(k).page
                    /\ result.outline[k].text = NFC(Strip(HeadingBlock(k).text))
                    /\ result.outline[k].level \in {"H1", "H2", "H3"}
             /\ \A i, j \in 1..Len(valid_headings) :
                    i # j => valid_headings[i] # valid_headings[j]
        ELSE result.outline = << >>

\* two entries alike, from two blocks, and an entry whose block text was
\* composed by the normalization
C6_TwoEntriesAlike ==
    /\ Succeeded
    /\ \E i, j \in 1..Len(result.outline) :
           i < j /\ result.outline[i] = result.outline[j]

\* Contact: info@example.com
ContactLine ==
    <<67, 111, 110, 116, 97, 99, 116, 58, 32, 105, 110, 102, 111, 64, 101,
      120, 97, 109, 112, 108, 101, 46, 99, 111, 109>>

\* C7: a block whose text is "Contact: info@example.com" is rejected by
\* _definitely_not_heading and is in no returned outline, whatever its font
\* and place and the other blocks of the document.
C7_ContactLineNeverHeading ==
    Succeeded =>
        /\ \A i \in 1..Len(all_blocks) :
               all_blocks[i].text = ContactLine =>
                   _definitely_not_heading(all_blocks[i].text, doc_lang)
        /\ \A k \in 1..Len(result.outline) :
               result.outline[k].text # ContactLine

\* digits, dot, digits, whitespace and a word character: ^\d+\.\d+\s+\w
SubNumberingPrefix ==
    <<Item({}, "d", FALSE, 1, -1), Item({46}, "", FALSE, 1, 1),
      Item({}, "d", FALSE, 1, -1), Item({}, "s", FALSE, 1, -1),
      Item({}, "w", FALSE, 1, 1)>>

\* the H1 conditions as section 4.5 of the specification words them: a major
\* section keyword, a top-level numbering prefix (digits, an optional dot,
\* whitespace and a word for western scripts, ideographic numerals for CJK),
\* or bold of size 14 or more on page 0 or 1
MeetsStatedH1(heading, language) ==
    \/ ContainsAny(Lower(Strip(heading.text)),
                   MarkedWords(language, MajorMarkers, MajorFallback))
    \/ IF heading.script_type = "cjk"
       THEN ReMatch(<<Item(IdeographicNumerals, "", FALSE, 1, -1)>>, heading.text)
       ELSE ReMatch(<<Item({}, "d", FALSE, 1, -1), Item({46}, "", FALSE, 0, 1),
                      Item({}, "s", FALSE, 1, -1), Item({}, "w", FALSE, 1, 1)>>,
                    heading.text)
    \/ heading.page <= 1 /\ _is_bold(heading) /\ heading.font_size >= 14

\* C8: every entry whose block starts with a sub-numbering prefix and meets
\* none of the stated H1 conditions has level H2, whatever the script.
C8_SubNumberedIsH2 ==
    Succeeded =>
        \A k \in 1..Len(result.outline) :
            /\ ReMatch(SubNumberingPrefix, HeadingBlock(k).text)
            /\ ~MeetsStatedH1(HeadingBlock(k), doc_lang)
            => result.outline[k].level = "H2"

\* the H1 test and the H2 test of the code on the block behind entry k
IsMajor(k) ==
    _is_major_section(Lower(Strip(HeadingBlock(k).text)), HeadingBlock(k), doc_lang)

IsSub(k) ==
    _is_subsection(Lower(Strip(HeadingBlock(k).text)), HeadingBlock(k), doc_lang)

\* C9: levels are a first-match-wins cascade: an entry has H1 exactly when
\* its block meets an H1 condition, also when it meets an H2 condition too;
\* H2 exactly when it meets no H1 condition and some H2 condition; H3 exactly
\* when it meets neither; whatever the other headings and their order.
C9_FirstMatchWins ==
    Succeeded =>
        \A k \in 1..Len(result.outline) :
            /\ result.outline[k].level = "H1" <=> IsMajor(k)
            /\ result.outline[k].level = "H2" <=> ~IsMajor(k) /\ IsSub(k)
            /\ result.outline[k].level = "H3" <=> ~IsMajor(k) /\ ~IsSub(k)

\* an entry that meets an H1 and an H2 condition, beside an entry of another
\* level
C9_BothConditionsMet ==
    /\ Succeeded
    /\ \E j, k \in 1..Len(result.outline) :
           /\ j # k
           /\ result.outline[j].level # "H1"
           /\ IsMajor(k) /\ IsSub(k)
           /\ result.outline[k].level = "H1"

\* 第一章 引言
ChapterLine == <<31532, 19968, 31456, 32, 24341, 35328>>

\* 引言
Foreword == <<24341, 35328>>

\* what C10 states of a block with the text of ChapterLine: the script tag
\* cjk, the language chinese, the match of the major keyword, and H1 where
\* level assignment visits the block
ChapterIsChineseH1 ==
    \A i \in 1..Len(all_blocks) :
        all_blocks[i].text = ChapterLine =>
            /\ all_blocks[i].script_type = "cjk"
            /\ doc_lang = "chinese"
            /\ \E w \in 1..Len(MarkedWords(doc_lang, MajorMarkers, MajorFallback)) :
                   /\ MarkedWords(doc_lang, MajorMarkers, MajorFallback)[w] = Foreword
                   /\ Contains(Lower(Strip(all_blocks[i].text)), Foreword)
            /\ \A k \in 1..Len(valid_headings) :
                   valid_headings[k] = i => result.outline[k].level = "H1"

\* C10 as stated: in a document whose sampled text is CJK, a block
\* "第一章 引言" has the script tag cjk, the language of the document is
\* chinese, and the block gets H1 through the major keyword.
C10_ChapterInCjkDocument ==
    Succeeded /\ _get_script_type(LanguageSample(all_blocks)) = "cjk"
        => ChapterIsChineseH1

\* C10 as amended: the same, for a document whose sampled text is CJK and
\* holds none of the characters by which _detect_cjk_lang tells Japanese
\* and Korean.
C10_ChapterInChineseDocument ==
    /\ Succeeded
    /\ _get_script_type(LanguageSample(all_blocks)) = "cjk"
    /\ ~ContainsAnyChar(LanguageSample(all_blocks), JapaneseChars \cup KoreanChars)
    => ChapterIsChineseH1

\* a plain "第一章 引言" of size 12 is an entry of the outline of a Chinese
\* document
C10_PlainChapterIsEntry ==
    /\ Succeeded
    /\ doc_lang = "chinese"
    /\ \E k \in 1..Len(result.outline) :
           /\ HeadingBlock(k).text = ChapterLine
           /\ ~_is_bold(HeadingBlock(k))
           /\ HeadingBlock(k).font_size < 14
           /\ result.outline[k].level = "H1"

\* block i is "ANNUAL REPORT 2024" on page 0 at 24 pt, bold, centered and at
\* the top of the page
IsReportTitle(i) ==
    /\ all_blocks[i].page = 0
    /\ all_blocks[i].text = AnnualReport[1].text
    /\ all_blocks[i].font_size = 24
    /\ _is_bold(all_blocks[i])
    /\ \E k \in 1..Len(structure_info.layout.centered) :
           structure_info.layout.centered[k] = i
    /\ \E k \in 1..Len(structure_info.layout.top_of_page) :
           structure_info.layout.top_of_page[k] = i

\* block i is body text: 10 pt and not bold
IsBody(i) == all_blocks[i].font_size = 10 /\ ~_is_bold(all_blocks[i])

\* the document is a report: the title block among body text
IsReport ==
    \E i \in 1..Len(all_blocks) :
        IsReportTitle(i) /\ \A j \in 1..Len(all_blocks) : j # i => IsBody(j)

\* C11: when page 0 holds "ANNUAL REPORT 2024" at 24 pt, bold, centered and
\* at the top of the page and every other block is body text at 10 pt, the
\* returned title is "ANNUAL REPORT 2024", whatever the number, the order and
\* the place of the body blocks.
C11_ReportTitleSelected ==
    Succeeded /\ IsReport => result.title = AnnualReport[1].text

\* a report of more than 20 blocks (p95 is then the body size) whose first
\* block is a body line that is centered and at the top of the page
C11_TitleAfterCenteredBody ==
    /\ Succeeded
    /\ IsReport
    /\ Len(all_blocks) > 20
    /\ IsBody(1)
    /\ structure_info.fonts.p95 = 10
    /\ \E k \in 1..Len(structure_info.layout.centered) :
           structure_info.layout.centered[k] = 1
    /\ \E k \in 1..Len(structure_info.layout.top_of_page) :
           structure_info.layout.top_of_page[k] = 1
    /\ result.title = AnnualReport[1].text

\* extraction of the page raises: the page cannot be read, or one of its raw
\* blocks cannot be processed
PageRaises(page) ==
    \/ page.unreadable
    \/ \E k \in 1..Len(page.blocks) : page.blocks[k].kind = "malformed"

\* the blocks of _get_text_blocks's list that lie on page p
BlocksOfPage(p) == SelectSeq(all_blocks, LAMBDA b : b.page = p)

\* C12: when extraction of a page raises in _get_text_blocks the page is
\* skipped as a whole: the returned list holds no block of the failing page,
\* and every block of every other page up to the page limit.
C12_FailingPageSkippedWhole ==
    pc = "language" /\ Len(all_blocks) < memory_threshold =>
        \A p \in 0..(total_pages - 1) :
            IF PageRaises(Doc.pages[p + 1])
            THEN BlocksOfPage(p) = << >>
            ELSE BlocksOfPage(p) = GatherBlocks(Doc, p + 1, p, 1, << >>)

\* C13: the process exits with status 1 when PyMuPDF is missing or when the
\* input directory is missing, and with status 0 in every other run, also
\* when extraction failed or gave an empty outline.
C13_ExitStatus ==
    pc = "exited" =>
        exit_code = IF ~env.fitz_installed \/ ~env.input_dir_exists THEN 1 ELSE 0

\* the document of the call has more blocks than memory_threshold
OverThreshold ==
    /\ Len(all_blocks) >= memory_threshold
    /\ Len(UncappedBlocks(Doc, total_pages)) > memory_threshold

\* C14: the block list of _get_text_blocks has at most memory_threshold
\* (1000) blocks and is a prefix of the list gathered without the cap; and
\* reaching the cap is no error: extract_structure goes on and returns the
\* title and the outline found in the capped list.
C14_BlockListCapped ==
    /\ pc = "language" =>
           /\ Len(all_blocks) <= memory_threshold
           /\ all_blocks = SubSeq(UncappedBlocks(Doc, total_pages),
                                  1, Len(all_blocks))
    /\ Succeeded /\ OverThreshold =>
           /\ structure_info.block_count = memory_threshold
           /\ result.title = _find_title(all_blocks, structure_info, doc_lang)
           /\ result.outline = _format_headings(all_blocks, valid_headings)

\* a report of more than 1000 blocks came back with its title and an outline
C14_CapReached ==
    /\ Succeeded
    /\ OverThreshold
    /\ Len(all_blocks) = 1000
    /\ result.title = AnnualReport[1].text
    /\ Len(result.outline) > 0

\* the files process_all_pdfs has reported with "Completed": those whose
\* save_output has returned
Completed == 1..Len(results)

\* the files whose result JSON, named after the file, is in /app/output
Written == DOMAIN outputs

\* C15: a file is reported completed only when its result JSON exists, also
\* when writing fails; and after a batch run every PDF found has its one
\* result JSON, named after the source file.
C15_CompletedMeansWritten ==
    [](/\ Completed \subseteq Written
       /\ pc = "exited" /\ exit_code = 0 => Written = 1..Len(pdf_files))

\* block i is on page 0 and does not match the filter of _obviously_not_title
TitleSource(i) ==
    /\ all_blocks[i].page = 0
    /\ ~_obviously_not_title(all_blocks[i].text, doc_lang)

\* no block of the first page scores above 0.3 as a title
NoTitleCandidate ==
    \A i \in 1..Len(all_blocks) :
        all_blocks[i].page = 0 =>
            ~ScoreAbove(_score_title_candidate(all_blocks, all_blocks[i],
                                               structure_info, doc_lang),
                        Score(30))

\* C16: the title is empty or the cleaned text of one block of page 0 that
\* does not match the filter of _obviously_not_title, whether it was chosen
\* by score or by the largest font; and it is empty when page 0 has no block
\* or only blocks matching the filter, also when later pages have blocks.
C16_TitleFromFirstPage ==
    Succeeded =>
        /\ \/ result.title = << >>
           \/ \E i \in 1..Len(all_blocks) :
                  /\ TitleSource(i)
                  /\ result.title = _clean_title(all_blocks[i].text, doc_lang)
        /\ (\A i \in 1..Len(all_blocks) : ~TitleSource(i)) => result.title = << >>

\* page 0 has only a block matching the filter, a later page has a block
\* that does not, and the title is empty
C16_FirstPageFiltered ==
    /\ Succeeded
    /\ \E i \in 1..Len(all_blocks) : all_blocks[i].page = 0
    /\ \A i \in 1..Len(all_blocks) : ~TitleSource(i)
    /\ \E j \in 1..Len(all_blocks) :
           /\ all_blocks[j].page > 0
           /\ ~_obviously_not_title(all_blocks[j].text, doc_lang)
    /\ result.title = << >>

\* block i is a block the returned title was taken from
TitleBlock(i) ==
    /\ all_blocks[i].page = 0
    /\ _clean_title(all_blocks[i].text, doc_lang) = result.title

\* C17: the block of the title is no entry of the outline, and neither is a
\* block with the same text, also when the title was cut and got its
\* ellipsis.
C17_TitleBlockNotInOutline ==
    Succeeded /\ Len(result.title) > 0 =>
        \A i \in 1..Len(all_blocks) :
            TitleBlock(i) =>
                \A k \in 1..Len(valid_headings) :
                    /\ valid_headings[k] # i
                    /\ HeadingBlock(k).text # all_blocks[i].text

\* a title that was cut is returned together with an outline
C17_CutTitleBesideOutline ==
    /\ Succeeded
    /\ Len(result.outline) > 0
    /\ \E i \in 1..Len(all_blocks) :
           /\ TitleBlock(i)
           /\ Uncut(all_blocks[i].text) # result.title
           /\ SubSeq(result.title, Len(result.title) - 2, Len(result.title))
                  = Ellipsis

\* the span groups of the pages the call reads, each with its page
SpanGroups ==
    UNION {UNION {UNION {
        {[page |-> p - 1, spans |-> g] :
            g \in {_group_nearby_spans(line)[k] :
                      k \in 1..Len(_group_nearby_spans(line))}} :
        line \in {raw.lines[k] : k \in 1..Len(raw.lines)}} :
        raw \in {Doc.pages[p].blocks[k] : k \in 1..Len(Doc.pages[p].blocks)}} :
        p \in 1..total_pages}

\* the block _make_text_block makes of a span group
MadeOf(g) ==
    _make_text_block(g.spans, g.page,
                     [width |-> Doc.pages[g.page + 1].width,
                      height |-> Doc.pages[g.page + 1].height])

\* bit k of the flags f
Bit(f, k) == (f \div 2 ^ k) % 2

\* the block has the largest size and the flags, bit by bit, of the spans S
\* of the group, and is bold exactly when one of them has bit 4
StyledBy(block, spans, S) ==
    /\ \E k \in S : block.font_size = spans[k].size
    /\ \A k \in S : block.font_size >= spans[k].size
    /\ block.flags < 32
    /\ \A bit \in 0..4 :
           Bit(block.flags, bit) = 1 <=> \E k \in S : Bit(spans[k].flags, bit) = 1
    /\ _is_bold(block) <=> \E k \in S : Bit(spans[k].flags, 4) = 1

\* the spans of a group that have text besides whitespace
TextSpans(spans) == {k \in 1..Len(spans) : Len(Strip(spans[k].text)) > 0}

\* C18 as stated: the block of a span group has the largest font size of all
\* the spans of the group and the OR of all their flags, and is bold exactly
\* when some span has bit 4, whitespace-only spans included.
C18_StyleOfAllSpans ==
    pc = "language" =>
        \A g \in SpanGroups :
            MadeOf(g) # NoBlock =>
                StyledBy(MadeOf(g), g.spans, 1..Len(g.spans))

\* C18: the block of a span group has the largest font size of the spans of
\* the group that have text besides whitespace and the OR of their flags,
\* and is bold exactly when one of these spans has bit 4; a whitespace-only
\* span gives neither size nor flags.
C18_StyleOfTextSpans ==
    pc = "language" =>
        \A g \in SpanGroups :
            MadeOf(g) # NoBlock =>
                StyledBy(MadeOf(g), g.spans, TextSpans(g.spans))

\* a block of the list was made of a group whose whitespace-only span is
\* bold and larger than every span with text, and the block is not bold
C18_BoldSpaceBetweenWords ==
    /\ pc = "language"
    /\ \E g \in SpanGroups :
           /\ \E i \in 1..Len(all_blocks) : all_blocks[i] = MadeOf(g)
           /\ \E w \in (1..Len(g.spans)) \ TextSpans(g.spans) :
                  /\ Bit(g.spans[w].flags, 4) = 1
                  /\ \A k \in TextSpans(g.spans) :
                         g.spans[w].size > g.spans[k].size
           /\ Cardinality(TextSpans(g.spans)) > 1
           /\ ~_is_bold(MadeOf(g))

\* the language's own words for introduction and conclusion: the first and
\* the fifth word of its list in the keyword table
OwnMajorWords(language) ==
    <<KeywordsOf(language)[1], KeywordsOf(language)[5]>>

\* the keyword test of _is_major_section on the block behind entry k
MajorByKeyword(k) ==
    ContainsAny(Lower(Strip(HeadingBlock(k).text)),
                MarkedWords(doc_lang, MajorMarkers, MajorFallback))

\* entry k has the detected language's own word for introduction or
\* conclusion
HasOwnMajorWord(k) ==
    /\ LanguageKnown(doc_lang)
    /\ ContainsAny(Lower(Strip(HeadingBlock(k).text)), OwnMajorWords(doc_lang))

\* C19: in a document of a language of the keyword table, an entry whose
\* lower-cased text contains that language's own word for introduction or
\* conclusion meets the keyword test of _is_major_section and has H1.
C19_OwnKeywordGivesH1 ==
    Succeeded =>
        \A k \in 1..Len(valid_headings) :
            HasOwnMajorWord(k) =>
                MajorByKeyword(k) /\ result.outline[k].level = "H1"

\* Hiragana and Katakana (U+3041..U+309F, U+30A0..U+30FF), and Hangul
\* syllables and jamo
IsKana(c) == In(c, 12353, 12447) \/ In(c, 12448, 12543)
IsHangul(c) == In(c, 44032, 55203) \/ In(c, 4352, 4607) \/ In(c, 12593, 12686)

\* the letters of _detect_cyrillic_lang, small and capital
UkrainianLetters == UkrainianChars \cup {1030, 1031, 1028}

\* C20: the language of a sample follows from its script-exclusive
\* characters alone: a CJK sample is japanese when it has a Hiragana or
\* Katakana character, else korean when it has a Hangul character, else
\* chinese; a Cyrillic sample is ukrainian when it has a Ukrainian letter,
\* small or capital, else russian; an Arabic sample is persian when it has a
\* Persian letter, else arabic.
C20_VariantByScriptCharacters ==
    pc = "analyze" =>
        /\ _get_script_type(LanguageSample(all_blocks)) = "cjk" =>
               doc_lang =
                   IF \E i \in 1..Len(LanguageSample(all_blocks)) :
                          IsKana(LanguageSample(all_blocks)[i])
                   THEN "japanese"
                   ELSE IF \E i \in 1..Len(LanguageSample(all_blocks)) :
                               IsHangul(LanguageSample(all_blocks)[i])
                   THEN "korean"
                   ELSE "chinese"
        /\ _get_script_type(LanguageSample(all_blocks)) = "cyrillic" =>
               doc_lang =
                   IF ContainsAnyChar(LanguageSample(all_blocks), UkrainianLetters)
                   THEN "ukrainian" ELSE "russian"
        /\ _get_script_type(LanguageSample(all_blocks)) = "arabic" =>
               doc_lang =
                   IF ContainsAnyChar(LanguageSample(all_blocks), PersianChars)
                   THEN "persian" ELSE "arabic"

\* extract_structure holds the block list _get_text_blocks returned and has
\* not returned yet
AfterBlocks == pc \in {"language", "analyze", "title", "outline", "close"}

\* C21: from the return of _get_text_blocks until extract_structure
\* returns, no step changes the block list: every block keeps its fields
\* and their values, no block is added or removed, and the list keeps its
\* order.
C21_BlocksImmutable == [][AfterBlocks => all_blocks' = all_blocks]_vars

\* _analyze_structure has just returned the statistics of the block list
Analyzed == pc = "title"

\* the font sizes of the block list, in block order
FontSizes == AsSeq([i \in 1..Len(all_blocks) |-> all_blocks[i].font_size])

\* the element at index i, counted from 0, of the ascending size list: the
\* size with at most i sizes below it and more than i sizes not above it
SizeAtIndex(i) ==
    CHOOSE v \in {FontSizes[j] : j \in 1..Len(FontSizes)} :
        /\ Cardinality({j \in 1..Len(FontSizes) : FontSizes[j] < v}) <= i
        /\ Cardinality({j \in 1..Len(FontSizes) : FontSizes[j] <= v}) > i

\* the percentile read at floor(n * num / den), or the largest size when the
\* list has fewer than `least` sizes
PercentileOf(num, den, least) ==
    IF Len(FontSizes) < least THEN SeqMax(FontSizes)
    ELSE SizeAtIndex((Len(FontSizes) * num) \div den)

\* C22: for a non-empty block list, p75, p90 and p95 are the largest font
\* size when there are fewer than 5, 11 and 21 blocks, and else the element
\* at index floor(0.75 n), floor(0.90 n), floor(0.95 n) of the ascending
\* size list, an index below n; and smallest <= p75 <= p90 <= p95 <= largest.
C22_PercentilesOfSizes ==
    Analyzed =>
        /\ Len(all_blocks) > 0
        /\ structure_info.fonts.p75 = PercentileOf(3, 4, 5)
        /\ structure_info.fonts.p90 = PercentileOf(9, 10, 11)
        /\ structure_info.fonts.p95 = PercentileOf(19, 20, 21)
        /\ (19 * Len(all_blocks)) \div 20 < Len(all_blocks)
        /\ structure_info.fonts.smallest <= structure_info.fonts.p75
        /\ structure_info.fonts.p75 <= structure_info.fonts.p90
        /\ structure_info.fonts.p90 <= structure_info.fonts.p95
        /\ structure_info.fonts.p95 <= structure_info.fonts.largest

\* the statistics of 21 or more blocks whose sizes do not rise in block
\* order, with the three percentiles apart and below the largest size
C22_PercentilesApart ==
    /\ Analyzed
    /\ Len(all_blocks) > 20
    /\ \E i \in 1..(Len(all_blocks) - 1) : FontSizes[i] > FontSizes[i + 1]
    /\ structure_info.fonts.smallest < structure_info.fonts.p75
    /\ structure_info.fonts.p75 < structure_info.fonts.p90
    /\ structure_info.fonts.p90 < structure_info.fonts.p95
    /\ structure_info.fonts.p95 < structure_info.fonts.largest

\* extract_structure is between a successful fitz.open and its return
InExtract == pc \in {"blocks", "language", "analyze", "title", "outline", "close"}

\* C23: a document that extract_structure opened is closed when
\* extract_structure returns, on the early return without blocks, on the
\* normal return and on the return of the empty result after a stage has
\* raised: outside the call no document is open.
C23_ClosedOnReturn == ~InExtract => open_docs = {}

=============================================================================
